---- MODULE Spec2Model ----
(***************************************************************************)
(* A model of the Feishu-document-to-Markdown exporter: the block tree     *)
(* renderer (MarkdownRenderer), its output buffer, the token substitution  *)
(* and the export pipeline that drives them.                                *)
(*                                                                         *)
(* Text is a sequence of one-character strings.  A few fixed literals that *)
(* no character-level operation of the program looks into (HTML tags, the  *)
(* entities, the backtick, media tokens, path parts) are single elements.  *)
(***************************************************************************)
EXTENDS Integers, Sequences, FiniteSets, TLC

VARIABLES
    pc,           \* position of exportDocument: fetch, render, download, replace, write, done, aborted
    fetch,        \* getAllDocumentBlocks: pageToken, allBlocks, and the requests and responses so far (history)
    blocks,       \* the flat block list returned by getAllDocumentBlocks
    downloadImages, \* options.images !== false
    renderer,     \* the fields of the MarkdownRenderer instance
    markdown,     \* the local variable markdown of exportDocument
    dl,           \* downloadAllMedia: number of fileTokens entries already attempted
    tokenToPath,  \* downloadAllMedia's Map, as its entries in insertion order
    outFile,      \* the output file: whether written, and its content
    rendered,     \* the text before any token substitution (history)
    trace         \* the steps taken so far, in order (history)

vars ==
    <<pc, fetch, blocks, downloadImages, renderer, markdown, dl, tokenToPath, outFile, rendered,
      trace>>

-----------------------------------------------------------------------------
(* Bounds of the model *)

\* non-root blocks of a document tree
MaxBlocks == 3
\* text runs of one block
MaxRuns == 2
\* rows and columns of a table
MaxRows == 3
MaxCols == 2
\* table cells missing from the lookup
MaxMissing == 2
\* media blocks of a document in the pipeline
MaxMedia == 2
\* length of the text handed to replaceFileTokens
MaxLen == 4
\* the largest row_span and col_span of a merge
MaxSpan == 2
\* non-root blocks of a tree of quote containers, paragraphs and list items
MaxNested == 4
\* the largest color id of a callout; the background table ends at 14
MaxColor == 15
\* children of the page in a document rendered by a renderer already used
MaxAgain == 2
\* requests getAllDocumentBlocks may send for one document
MaxPages == 3

-----------------------------------------------------------------------------
(* Strings *)

Whitespace == {" ", "\n"}

RECURSIVE trimStart(_)
trimStart(s) ==
    IF s # <<>> /\ Head(s) \in Whitespace THEN trimStart(Tail(s)) ELSE s

RECURSIVE trimEnd(_)
trimEnd(s) ==
    IF s # <<>> /\ s[Len(s)] \in Whitespace THEN trimEnd(SubSeq(s, 1, Len(s) - 1)) ELSE s

\* a variant of trim that strips the front only
trimFrontOnly(s) == trimStart(s)

trim(s) == trimEnd(trimStart(s))

endsWith(s, suffix) ==
    /\ Len(suffix) <= Len(s)
    /\ SubSeq(s, Len(s) - Len(suffix) + 1, Len(s)) = suffix

startsWithAt(s, i, pat) ==
    /\ i + Len(pat) - 1 <= Len(s)
    /\ SubSeq(s, i, i + Len(pat) - 1) = pat

\* String.prototype.replaceAll(pat, by): leftmost non-overlapping occurrences
RECURSIVE replaceAll(_, _, _)
replaceAll(s, pat, by) ==
    IF s = <<>> \/ pat = <<>> THEN s
    ELSE IF startsWithAt(s, 1, pat)
         THEN by \o replaceAll(SubSeq(s, Len(pat) + 1, Len(s)), pat, by)
         ELSE <<Head(s)>> \o replaceAll(Tail(s), pat, by)

\* "   ".repeat(n)
RECURSIVE indentStr(_)
indentStr(n) == IF n <= 0 THEN <<>> ELSE <<" ", " ", " ">> \o indentStr(n - 1)

DigitChar == <<"0", "1", "2", "3", "4", "5", "6", "7", "8", "9">>

\* the decimal digits of a natural number, as a template literal prints it
RECURSIVE numToStr(_)
numToStr(n) ==
    IF n < 10 THEN <<DigitChar[n + 1]>>
    ELSE numToStr(n \div 10) \o <<DigitChar[(n % 10) + 1]>>

\* the lines of a text: split("\n")
RECURSIVE splitLines(_)
splitLines(s) ==
    IF \A i \in 1..Len(s) : s[i] # "\n" THEN <<s>>
    ELSE LET k == CHOOSE i \in 1..Len(s) : s[i] = "\n" /\ \A j \in 1..(i - 1) : s[j] # "\n"
         IN  <<SubSeq(s, 1, k - 1)>> \o splitLines(SubSeq(s, k + 1, Len(s)))

isBlank(s) == \A i \in 1..Len(s) : s[i] \in Whitespace

-----------------------------------------------------------------------------
(* converter/buffer.ts.  A Buffer is modelled by the text its parts join to. *)

\* Buffer.trimLastIfEndsWith: [ok |-> removed?, buf |-> the buffer afterwards]
trimLastIfEndsWith(buf, suffix) ==
    IF suffix = <<>> THEN [ok |-> FALSE, buf |-> buf]
    ELSE IF endsWith(buf, suffix)
         THEN [ok |-> TRUE, buf |-> SubSeq(buf, 1, Len(buf) - Len(suffix))]
         ELSE [ok |-> FALSE, buf |-> buf]

\* text.replace(/\n$/, "")
trimLastNewline(text) ==
    IF text # <<>> /\ text[Len(text)] = "\n" THEN SubSeq(text, 1, Len(text) - 1) ELSE text

\* a variant of escapeHTMLTags that leaves the text as it is
escapeNothing(text) == text

\* text.replace(/</g, "&lt;").replace(/>/g, "&gt;")
escapeHTMLTags(text) ==
    [i \in 1..Len(text) |->
        IF text[i] = "<" THEN "&lt;" ELSE IF text[i] = ">" THEN "&gt;" ELSE text[i]]

\* cellText.replace(/\n/gm, " ")
flattenNewlines(text) ==
    [i \in 1..Len(text) |-> IF text[i] = "\n" THEN " " ELSE text[i]]

\* decodeURIComponent, on texts whose only escape is %20
decodeURIComponent(text) ==
    [i \in 1..Len(text) |-> IF text[i] = "%20" THEN " " ELSE text[i]]

-----------------------------------------------------------------------------
(* converter/types.ts: the block model *)

NoStyle ==
    [bold |-> FALSE, italic |-> FALSE, strikethrough |-> FALSE, underline |-> FALSE,
     inline_code |-> FALSE, link |-> <<>>]

\* a TextElement holding a text_run
TextRun(content, style) ==
    [kind |-> "text_run", content |-> content, style |-> style, title |-> <<>>]

Equation(content) ==
    [kind |-> "equation", content |-> content, style |-> NoStyle, title |-> <<>>]

MentionDoc(title, token) ==
    [kind |-> "mention_doc", content |-> token, style |-> NoStyle, title |-> title]

\* a Block with no payload; block_id 0 stands for null / undefined
NoBlock ==
    [block_id |-> 0, parent_id |-> 0, children |-> <<>>, block_type |-> "None",
     has_text |-> FALSE, elements |-> <<>>,
     done |-> FALSE, language |-> 0,
     has_media |-> FALSE, token |-> <<>>, name |-> <<>>, width |-> 0, height |-> 0,
     align |-> 0,
     has_table |-> FALSE, cells |-> <<>>, row_size |-> 0, column_size |-> 0,
     column_width |-> <<>>, header_row |-> FALSE, header_column |-> FALSE,
     merge_info |-> <<>>,
     url |-> <<>>,
     has_callout |-> FALSE, background_color |-> 0, border_color |-> 0, text_color |-> 0,
     emoji_id |-> <<>>,
     grid_column_size |-> 0, width_ratio |-> 0]

Block(id, type, parent, children) ==
    [NoBlock EXCEPT !.block_id = id, !.block_type = type, !.parent_id = parent,
                    !.children = children]

\* a block whose type-specific payload is a TextBlock with these elements
TextualBlock(id, type, parent, children, elements) ==
    [Block(id, type, parent, children) EXCEPT !.has_text = TRUE, !.elements = elements]

HeadingTypes ==
    {"Heading1", "Heading2", "Heading3", "Heading4", "Heading5", "Heading6",
     "Heading7", "Heading8", "Heading9"}

\* parseTextBlock's childrenBlockTypes
childrenBlockTypes == {"Text"} \cup HeadingTypes

\* getCodeLanguage, for plain text (1), an unknown code, and the enum names in between
getCodeLanguage(code) ==
    IF code = 1 THEN <<"text">> ELSE IF code = 2 THEN <<"abap">> ELSE <<>>

\* getAlignStyle
getAlignStyle(align) ==
    IF align = 2 THEN <<"center">> ELSE IF align = 3 THEN <<"right">> ELSE <<"left">>

-----------------------------------------------------------------------------
(* The renderer's fields, threaded through the walk *)

NoRenderer ==
    [blockMap |-> <<>>, currentBlock |-> NoBlock, nextBlock |-> NoBlock, indent |-> 0,
     fileTokens |-> <<>>, title |-> <<>>, threw |-> FALSE, log |-> <<>>]

has(st, id) == id \in DOMAIN st.blockMap

get(st, id) == IF has(st, id) THEN st.blockMap[id] ELSE NoBlock

\* one entry of the walk's history
Event(op, id, n) == [op |-> op, id |-> id, n |-> n]

note(st, op, id, n) == [st EXCEPT !.log = Append(@, Event(op, id, n))]

\* a rendered fragment together with the renderer's fields after producing it
Out(text, st) == [text |-> text, st |-> st]

-----------------------------------------------------------------------------
(* converter/markdown.ts: the inline text composer *)

Wrapper(pre, post, escape) == [pre |-> pre, post |-> post, escape |-> escape]

\* a variant of styleWrapper that looks at italic before bold
styleWrapperItalicFirst(style) ==
    IF style.italic THEN Wrapper(<<"*">>, <<"*">>, TRUE)
    ELSE IF style.bold THEN Wrapper(<<"*", "*">>, <<"*", "*">>, TRUE)
    ELSE IF style.strikethrough THEN Wrapper(<<"~", "~">>, <<"~", "~">>, TRUE)
    ELSE IF style.underline THEN Wrapper(<<"<", "u", ">">>, <<"<", "/", "u", ">">>, TRUE)
    ELSE IF style.inline_code THEN Wrapper(<<"backtick">>, <<"backtick">>, FALSE)
    ELSE IF style.link # <<>>
         THEN Wrapper(<<"[">>, <<"]", "(">> \o decodeURIComponent(style.link) \o <<")">>, TRUE)
    ELSE Wrapper(<<>>, <<>>, TRUE)

\* parseTextRun: the wrapper of the first style flag that is set
styleWrapper(style) ==
    IF style.bold THEN Wrapper(<<"*", "*">>, <<"*", "*">>, TRUE)
    ELSE IF style.italic THEN Wrapper(<<"*">>, <<"*">>, TRUE)
    ELSE IF style.strikethrough THEN Wrapper(<<"~", "~">>, <<"~", "~">>, TRUE)
    ELSE IF style.underline THEN Wrapper(<<"<", "u", ">">>, <<"<", "/", "u", ">">>, TRUE)
    ELSE IF style.inline_code THEN Wrapper(<<"backtick">>, <<"backtick">>, FALSE)
    ELSE IF style.link # <<>>
         THEN Wrapper(<<"[">>, <<"]", "(">> \o decodeURIComponent(style.link) \o <<")">>, TRUE)
    ELSE Wrapper(<<>>, <<>>, TRUE)

\* plainText.match(/[:<fullwidth colon>]$/); the full-width colon is one element
endsInColon(text) == text # <<>> /\ text[Len(text)] \in {":", "fullwidth-colon"}

\* a variant of colonWrapper that keeps the Markdown delimiters
colonWrapperKept(style, plainText, w) == w

\* parseTextRun: bold / italic / strikethrough become HTML tags before a final colon
colonWrapper(style, plainText, w) ==
    IF ~endsInColon(plainText) THEN w
    ELSE IF style.bold THEN Wrapper(<<"<", "b", ">">>, <<"<", "/", "b", ">">>, w.escape)
    ELSE IF style.italic THEN Wrapper(<<"<", "i", ">">>, <<"<", "/", "i", ">">>, w.escape)
    ELSE IF style.strikethrough
         THEN Wrapper(<<"<", "s", ">">>, <<"<", "/", "s", ">">>, w.escape)
    ELSE w

\* parseTextRun(buf, textRun): the buffer afterwards
parseTextRun(buf, textRun, st) ==
    LET style == textRun.style
        plainTextOf(w0) ==
            IF w0.escape /\ st.currentBlock.block_type # "Code"
            THEN escapeHTMLTags(textRun.content)
            ELSE textRun.content
        written(w, plainText, merged) ==
            (IF merged.ok THEN merged.buf ELSE buf \o w.pre) \o plainText \o w.post
        wrapped(w, plainText) == written(w, plainText, trimLastIfEndsWith(buf, w.pre))
        escaped(w0, plainText) == wrapped(colonWrapper(style, plainText, w0), plainText)
        styled(w0) == escaped(w0, plainTextOf(w0))
    IN  styled(styleWrapper(style))

\* parseTextElement(buf, el, inline): the buffer afterwards
parseTextElement(buf, el, inline, st) ==
    IF el.kind = "text_run" THEN parseTextRun(buf, el, st)
    ELSE IF el.kind = "equation"
         THEN LET symbol == IF inline THEN <<"$">> ELSE <<"$", "$">>
              IN  buf \o symbol \o trimEnd(el.content) \o symbol
    ELSE IF el.kind = "mention_doc"
         THEN buf \o <<"[">> \o el.title \o <<"]", "(">>
                  \o decodeURIComponent(el.content) \o <<")">>
    ELSE buf

\* for (const el of elements) this.parseTextElement(buf, el, inline)
RECURSIVE parseElements(_, _, _, _)
parseElements(buf, elements, inline, st) ==
    IF elements = <<>> THEN buf
    ELSE parseElements(parseTextElement(buf, Head(elements), inline, st),
                       Tail(elements), inline, st)

-----------------------------------------------------------------------------
(* converter/markdown.ts: leaf blocks and helpers *)

\* a variant of addFileToken that puts the new entry first
addFileTokenFirst(st, type, token) ==
    IF token # <<>>
    THEN [st EXCEPT !.fileTokens = <<[token |-> token, type |-> type]>> \o @]
    ELSE st

\* addFileToken(type, token)
addFileToken(st, type, token) ==
    IF token # <<>>
    THEN [st EXCEPT !.fileTokens = Append(@, [token |-> token, type |-> type])]
    ELSE st

\* marked.parse(markdown, {gfm, breaks}): every non-blank line of the Markdown
\* becomes one HTML block ended by a newline; blank lines separate blocks and
\* are not part of the HTML
RECURSIVE linesToHTML(_)
linesToHTML(lines) ==
    IF lines = <<>> THEN <<>>
    ELSE (IF isBlank(Head(lines)) THEN <<>>
          ELSE <<"<p>">> \o trim(Head(lines)) \o <<"</p>", "\n">>)
         \o linesToHTML(Tail(lines))

markdownToHTML(md) == linesToHTML(splitLines(md))

\* parseImage / parseBoard: the <img> tag of an ImageBlock
imgTag(b) ==
    LET align == getAlignStyle(b.align)
    IN  <<"<img ", "src=\"">> \o b.token \o <<"\"">>
        \o (IF b.width # 0 THEN <<" src-width=\"">> \o numToStr(b.width) \o <<"\"">> ELSE <<>>)
        \o (IF b.height # 0 THEN <<" src-height=\"">> \o numToStr(b.height) \o <<"\"">> ELSE <<>>)
        \o (IF align # <<"left">> THEN <<" align=\"">> \o align \o <<"\"">> ELSE <<>>)
        \o <<" />", "\n">>

parseImage(block, st) ==
    IF ~block.has_media THEN Out(<<>>, st)
    ELSE Out(imgTag(block), addFileToken(st, "image", block.token))

parseBoard(block, st) ==
    IF ~block.has_media THEN Out(<<>>, st)
    ELSE Out(imgTag(block), addFileToken(st, "board", block.token))

parseFile(block, st) ==
    IF ~block.has_media THEN Out(<<>>, st)
    ELSE Out(<<"[">> \o block.name \o <<"]", "(">> \o block.token \o <<")", "\n">>,
             addFileToken(st, "file", block.token))

parseIframe(block, st) ==
    IF block.url = <<>> THEN Out(<<>>, st)
    ELSE Out(<<"<iframe ", "src=\"">> \o decodeURIComponent(block.url)
                 \o <<"\"", "></iframe>", "\n">>, st)

\* parseUnsupport: outputUnsupported is false and nothing sets it
parseUnsupport(block, st) == Out(<<>>, st)

\* parseOrderedBlock: the ordinal, counted back over the children of the parent
RECURSIVE countOrderedBack(_, _, _)
countOrderedBack(st, children, j) ==
    IF j >= 1 /\ get(st, children[j]).block_type = "Ordered"
    THEN 1 + countOrderedBack(st, children, j - 1)
    ELSE 0

\* a variant of orderOf without the break: every earlier ordered sibling counts
orderOfNoBreak(block, st) ==
    LET parent == get(st, block.parent_id)
        at == {i \in 1..Len(parent.children) : parent.children[i] = block.block_id}
    IN  IF at = {} THEN 1
        ELSE LET i == CHOOSE x \in at : \A y \in at : x <= y
             IN  1 + Cardinality({j \in 1..(i - 1) :
                                     get(st, parent.children[j]).block_type = "Ordered"})

orderOf(block, st) ==
    LET parent == get(st, block.parent_id)
        at == {i \in 1..Len(parent.children) : parent.children[i] = block.block_id}
    IN  IF at = {} THEN 1
        ELSE LET i == CHOOSE x \in at : \A y \in at : x <= y
             IN  1 + countOrderedBack(st, parent.children, i - 1)

\* a variant of compact that never drops the trailing newline
compactNever(block, st) == FALSE

\* parseBulletBlock / parseOrderedBlock: the item keeps no trailing newline
compact(block, st) ==
    /\ st.nextBlock.block_type = block.block_type
    /\ st.nextBlock.parent_id = block.parent_id
    /\ block.children = <<>>

\* a variant of isComplexTable that looks at the merge spans only
isComplexTableBySpanOnly(table) ==
    \E i \in 1..Len(table.merge_info) :
        table.merge_info[i].row_span > 1 \/ table.merge_info[i].col_span > 1

\* isComplexTable
isComplexTable(table) ==
    LET hasMerge == \E i \in 1..Len(table.merge_info) :
                        table.merge_info[i].row_span > 1 \/ table.merge_info[i].col_span > 1
        hasColWidth == \E i \in 1..Len(table.column_width) : table.column_width[i] > 100
    IN  hasMerge \/ hasColWidth

\* tableCellAttrHTML(mergeInfos, idx), idx counted from 0
tableCellAttrHTML(mergeInfos, idx) ==
    IF idx + 1 > Len(mergeInfos) THEN <<>>
    ELSE LET m == mergeInfos[idx + 1]
         IN  (IF m.row_span > 1 THEN <<" rowspan=\"">> \o numToStr(m.row_span) \o <<"\"">>
              ELSE <<>>)
             \o (IF m.col_span > 1 THEN <<" colspan=\"">> \o numToStr(m.col_span) \o <<"\"">>
                 ELSE <<>>)

\* parseTableAsHTML: cellInfos, 1 for a cell to generate and 0 for a covered one;
\* position idx + 1 holds the entry of cell idx
cellInfos(mergeInfos, columnSize) ==
    [t \in 1..Len(mergeInfos) |->
        IF \E i \in 1..Len(mergeInfos) :
              \/ \E j \in 1..(mergeInfos[i].row_span - 1) : t = i + j * columnSize
              \/ \E j \in 1..(mergeInfos[i].col_span - 1) : t = i + j
        THEN 0 ELSE 1]

-----------------------------------------------------------------------------
(* converter/markdown.ts: tables, once the cells are rendered *)

\* buf.write(headRow[i] || " "); buf.write("|") for each column
RECURSIVE gfmHead(_, _, _)
gfmHead(headRow, i, columnSize) ==
    IF i > columnSize THEN <<>>
    ELSE (IF i <= Len(headRow) /\ headRow[i] # <<>> THEN headRow[i] ELSE <<" ">>)
         \o <<"|">> \o gfmHead(headRow, i + 1, columnSize)

\* buf.write("---|") for each column
RECURSIVE gfmRule(_)
gfmRule(n) == IF n <= 0 THEN <<>> ELSE <<"-", "-", "-", "|">> \o gfmRule(n - 1)

\* row.forEach(cell => { buf.write(cell); buf.write("|") })
RECURSIVE gfmCells(_)
gfmCells(row) ==
    IF row = <<>> THEN <<>> ELSE Head(row) \o <<"|">> \o gfmCells(Tail(row))

RECURSIVE gfmBody(_)
gfmBody(rows) ==
    IF rows = <<>> THEN <<>>
    ELSE <<"|">> \o gfmCells(Head(rows)) \o <<"\n">> \o gfmBody(Tail(rows))

\* a variant of gfmTable that leaves the first row in the body
gfmTableKeepingHead(table, rows) ==
    <<"|">> \o gfmHead(<<>>, 1, table.column_size) \o <<"\n">>
    \o <<"|">> \o gfmRule(table.column_size) \o <<"\n">>
    \o gfmBody(rows)

\* parseTable, after the rows are collected
gfmTable(table, rows) ==
    LET headRow == IF table.header_row /\ rows # <<>> THEN Head(rows) ELSE <<>>
        body == IF table.header_row /\ rows # <<>> THEN Tail(rows) ELSE rows
    IN  <<"|">> \o gfmHead(headRow, 1, table.column_size) \o <<"\n">>
        \o <<"|">> \o gfmRule(table.column_size) \o <<"\n">>
        \o gfmBody(body)

\* writeCell for each cell of one row, the first with index cellIdx (from 0)
RECURSIVE writeCells(_, _, _, _, _)
writeCells(row, cellIdx, tag, mergeInfos, infos) ==
    IF row = <<>> THEN <<>>
    ELSE (IF cellIdx + 1 <= Len(infos) /\ infos[cellIdx + 1] = 1
          THEN <<"<", tag>> \o tableCellAttrHTML(mergeInfos, cellIdx) \o <<">">>
               \o Head(row) \o <<"</", tag, ">">>
          ELSE <<>>)
         \o writeCells(Tail(row), cellIdx + 1, tag, mergeInfos, infos)

\* for (const row of rows) { "    <tr>", the cells, "</tr>" }
RECURSIVE htmlBody(_, _, _, _)
htmlBody(rows, cellIdx, mergeInfos, infos) ==
    IF rows = <<>> THEN <<>>
    ELSE <<"    <tr>">> \o writeCells(Head(rows), cellIdx, "td", mergeInfos, infos)
         \o <<"</tr>", "\n">>
         \o htmlBody(Tail(rows), cellIdx + Len(Head(rows)), mergeInfos, infos)

\* <col /> for each column
RECURSIVE colgroup(_, _)
colgroup(table, i) ==
    IF i > table.column_size THEN <<>>
    ELSE <<"    <col">>
         \o (IF i <= Len(table.column_width) /\ table.column_width[i] # 0
             THEN <<" width=\"">> \o numToStr(table.column_width[i]) \o <<"\"">>
             ELSE <<>>)
         \o <<" />", "\n">> \o colgroup(table, i + 1)

\* parseTableAsHTML, after the rows are collected
htmlTable(table, rows) ==
    LET mergeInfos == table.merge_info
        columnSize == table.column_size
        infos == cellInfos(mergeInfos, columnSize)
        headRow == IF rows # <<>> THEN Head(rows) ELSE <<>>
        headCells == [i \in 1..columnSize |-> IF i <= Len(headRow) THEN headRow[i] ELSE <<>>]
        body == IF table.header_row /\ rows # <<>> THEN Tail(rows) ELSE rows
    IN  <<"<table">>
        \o (IF table.header_column THEN <<" header_column=\"1\"">> ELSE <<>>)
        \o (IF table.header_row THEN <<" header_row=\"1\"">> ELSE <<>>)
        \o <<">", "\n", "  <colgroup>", "\n">> \o colgroup(table, 1)
        \o <<"  </colgroup>", "\n">>
        \o (IF table.header_row
            THEN <<"  <thead>", "\n", "    <tr>">>
                 \o writeCells(headCells, 0, "th", mergeInfos, infos)
                 \o <<"</tr>", "\n", "  </thead>", "\n">>
            ELSE <<>>)
        \o <<"  <tbody>", "\n">>
        \o htmlBody(body, IF table.header_row THEN columnSize ELSE 0, mergeInfos, infos)
        \o <<"  </tbody>", "\n", "</table>", "\n">>

\* types.ts: the color tables
CalloutBackgroundColorMap ==
    <<"#fef2f2", "#fff7ed", "#fefce8", "#f0fdf4", "#eff6ff", "#faf5ff", "#f9fafb",
      "#fecaca", "#fed7aa", "#fef08a", "#bbf7d0", "#bfdbfe", "#e9d5ff", "#e5e7eb">>

CalloutBorderColorMap ==
    <<"#fecaca", "#fed7aa", "#fef08a", "#bbf7d0", "#bfdbfe", "#e9d5ff", "#e5e7eb">>

FontColorMap ==
    <<"#ef4444", "#f97316", "#eab308", "#22c55e", "#3b82f6", "#a855f7", "#6b7280">>

\* emoji.ts: the character of an emoji id
getEmojiChar(id) == <<"emoji:">> \o id

\* parseCallout without the table checks: every id given yields an entry
styleEntriesUnchecked(block) ==
    (IF block.background_color # 0
     THEN <<<<"background: ",
              IF block.background_color \in DOMAIN CalloutBackgroundColorMap
              THEN CalloutBackgroundColorMap[block.background_color] ELSE "undefined">>>>
     ELSE <<>>)
    \o (IF block.border_color # 0
        THEN <<<<"border: 1px solid ",
                 IF block.border_color \in DOMAIN CalloutBorderColorMap
                 THEN CalloutBorderColorMap[block.border_color] ELSE "undefined">>>>
        ELSE <<>>)
    \o (IF block.text_color # 0
        THEN <<<<"color: ",
                 IF block.text_color \in DOMAIN FontColorMap
                 THEN FontColorMap[block.text_color] ELSE "#222">>>>
        ELSE <<>>)

\* parseCallout: the entries of the style attribute
styleEntries(block) ==
    (IF block.background_color # 0 /\ block.background_color \in DOMAIN CalloutBackgroundColorMap
     THEN <<<<"background: ", CalloutBackgroundColorMap[block.background_color]>>>>
     ELSE <<>>)
    \o (IF block.border_color # 0 /\ block.border_color \in DOMAIN CalloutBorderColorMap
        THEN <<<<"border: 1px solid ", CalloutBorderColorMap[block.border_color]>>>>
        ELSE <<>>)
    \o (IF block.text_color # 0
        THEN <<<<"color: ",
                 IF block.text_color \in DOMAIN FontColorMap
                 THEN FontColorMap[block.text_color] ELSE "#222">>>>
        ELSE <<>>)

\* parseCallout: the class names
classNames(block) ==
    <<"callout">>
    \o (IF block.background_color # 0
        THEN <<" ", "callout-bg-">> \o numToStr(block.background_color) ELSE <<>>)
    \o (IF block.border_color # 0
        THEN <<" ", "callout-border-">> \o numToStr(block.border_color) ELSE <<>>)
    \o (IF block.text_color # 0
        THEN <<" ", "callout-color-">> \o numToStr(block.text_color) ELSE <<>>)

\* entries.join("; ")
RECURSIVE joinEntries(_)
joinEntries(entries) ==
    IF entries = <<>> THEN <<>>
    ELSE IF Len(entries) = 1 THEN Head(entries)
    ELSE Head(entries) \o <<"; ">> \o joinEntries(Tail(entries))

\* parseCallout: the opening <div> and the emoji
calloutOpen(block) ==
    LET entries == IF block.has_callout THEN styleEntries(block) ELSE <<>>
        classes == IF block.has_callout THEN classNames(block) ELSE <<"callout">>
    IN  <<"<div class=\"">> \o classes \o <<"\"">>
        \o (IF entries # <<>> THEN <<" style=\"">> \o joinEntries(entries) \o <<"\"">>
            ELSE <<>>)
        \o <<">", "\n">>
        \o (IF block.has_callout /\ block.emoji_id # <<>>
            THEN <<"<span class=\"callout-emoji\">">> \o getEmojiChar(block.emoji_id)
                 \o <<"</span>", "\n">>
            ELSE <<>>)

-----------------------------------------------------------------------------
(* converter/markdown.ts: the recursive render dispatcher.  Every operator  *)
(* takes the renderer's fields and returns the fragment with the fields     *)
(* after the call.  Once a call has thrown (threw), nothing more is done.   *)

RECURSIVE parseBlock(_, _, _)
RECURSIVE dispatch(_, _, _)
RECURSIVE parsePageBlock(_, _)
RECURSIVE pageChildren(_, _, _, _)
RECURSIVE parseTextBlock(_, _)
RECURSIVE textChildren(_, _, _, _)
RECURSIVE parseBulletBlock(_, _, _)
RECURSIVE parseOrderedBlock(_, _, _)
RECURSIVE listChildren(_, _, _, _, _)
RECURSIVE plainChildren(_, _, _, _)
RECURSIVE parseTableCell(_, _)
RECURSIVE parseTable(_, _)
RECURSIVE tableRows(_, _, _, _, _)
RECURSIVE parseQuoteContainer(_, _)
RECURSIVE quoteChildren(_, _, _, _)
RECURSIVE parseView(_, _)
RECURSIVE parseSyncedBlock(_, _)
RECURSIVE parseGrid(_, _)
RECURSIVE gridChildren(_, _, _, _)
RECURSIVE parseGridColumn(_, _)
RECURSIVE mapChildren(_, _, _, _)
RECURSIVE parseCallout(_, _)

headingLevel(type) ==
    CHOOSE n \in 1..9 :
        type = <<"Heading1", "Heading2", "Heading3", "Heading4", "Heading5", "Heading6",
                 "Heading7", "Heading8", "Heading9">>[n]

\* a heading prefix that stops at the six levels Markdown knows
hashesCapped(n) == [i \in 1..(IF n > 6 THEN 6 ELSE n) |-> "#"]

\* "#".repeat(level)
RECURSIVE hashes(_)
hashes(n) == IF n <= 0 THEN <<>> ELSE <<"#">> \o hashes(n - 1)

\* parseBlock(block, indent)
parseBlock(block, indent, st0) ==
    IF st0.threw THEN Out(<<>>, st0)
    ELSE LET st == note([st0 EXCEPT !.indent = indent, !.currentBlock = block],
                        "render", block.block_id, indent)
             indented(r) ==
                 Out(indentStr(indent) \o r.text,
                     note(r.st, "fragment", block.block_id, Len(indentStr(indent) \o r.text)))
         IN  indented(dispatch(block, indent, st))

\* parseBlock: the switch on block.block_type
dispatch(block, indent, st) ==
    LET t == block.block_type
    IN  CASE t = "Page" -> parsePageBlock(block, st)
          [] t = "Text" -> parseTextBlock(block, st)
          [] t \in HeadingTypes ->
                LET heading(r) ==
                        Out(hashes(headingLevel(t)) \o <<" ">> \o trimStart(r.text), r.st)
                IN  heading(parseTextBlock(block, st))
          [] t = "Bullet" ->
                LET bullet(r) == Out(trimStart(r.text), r.st)
                IN  bullet(parseBulletBlock(block, indent, st))
          [] t = "Ordered" -> parseOrderedBlock(block, indent, st)
          [] t = "Code" ->
                LET code(r) ==
                        Out(<<"fence">> \o getCodeLanguage(block.language) \o <<"\n">>
                                \o trim(r.text) \o <<"\n", "fence", "\n">>, r.st)
                IN  code(parseTextBlock(block, st))
          [] t = "Quote" ->
                LET quote(r) == Out(<<">", " ">> \o r.text, r.st)
                IN  quote(parseTextBlock(block, st))
          [] t = "TodoList" ->
                LET todo(r) ==
                        Out(<<"-", " ", "[", IF block.done THEN "x" ELSE " ", "]", " ">>
                                \o r.text, r.st)
                IN  todo(parseTextBlock(block, st))
          [] t = "Divider" -> Out(<<"-", "-", "-", "\n">>, st)
          [] t = "Image" -> parseImage(block, st)
          [] t = "TableCell" -> parseTableCell(block, st)
          [] t = "Table" -> parseTable(block, st)
          [] t = "QuoteContainer" -> parseQuoteContainer(block, st)
          [] t = "View" -> parseView(block, st)
          [] t = "File" -> parseFile(block, st)
          [] t = "Grid" -> parseGrid(block, st)
          [] t = "GridColumn" -> Out(<<>>, st)
          [] t = "Callout" -> parseCallout(block, st)
          [] t = "Iframe" -> parseIframe(block, st)
          [] t = "Board" -> parseBoard(block, st)
          [] t = "SyncedBlock" -> parseSyncedBlock(block, st)
          [] OTHER -> parseUnsupport(block, st)

\* parsePageBlock
parsePageBlock(block, st) ==
    LET st1 == IF block.has_text /\ block.elements # <<>>
               THEN [st EXCEPT !.title =
                        trim(parseElements(<<>>, block.elements, Len(block.elements) > 1, st))]
               ELSE st
        titled(r) == pageChildren(block, 1, <<"#", " ">> \o r.text \o <<"\n">>, r.st)
    IN  titled(parseTextBlock(block, st1))

\* parsePageBlock without the newline written after each child
RECURSIVE pageChildrenTight(_, _, _, _)
pageChildrenTight(block, idx, buf, st) ==
    IF idx > Len(block.children) \/ st.threw THEN Out(buf, st)
    ELSE IF ~has(st, block.children[idx]) THEN pageChildrenTight(block, idx + 1, buf, st)
    ELSE LET st1 == [st EXCEPT !.nextBlock =
                        IF idx + 1 <= Len(block.children)
                        THEN get(st, block.children[idx + 1]) ELSE NoBlock]
             written(r) == pageChildrenTight(block, idx + 1, buf \o r.text, r.st)
         IN  written(parseBlock(get(st, block.children[idx]), 0, st1))

\* parsePageBlock: block.children.forEach((childId, idx) => ...), from the idx-th child
pageChildren(block, idx, buf, st) ==
    IF idx > Len(block.children) \/ st.threw THEN Out(buf, st)
    ELSE IF ~has(st, block.children[idx]) THEN pageChildren(block, idx + 1, buf, st)
    ELSE LET st1 == [st EXCEPT !.nextBlock =
                        IF idx + 1 <= Len(block.children)
                        THEN get(st, block.children[idx + 1]) ELSE NoBlock]
             written(r) ==
                 pageChildren(block, idx + 1,
                              IF r.text # <<>> THEN buf \o r.text \o <<"\n">> ELSE buf, r.st)
         IN  written(parseBlock(get(st, block.children[idx]), 0, st1))

\* parseTextBlock(block, textBlock), textBlock being the payload of the block's type
parseTextBlock(block, st) ==
    IF ~block.has_text THEN Out(<<>>, st)
    ELSE LET ended(buf) == IF buf # <<>> THEN buf \o <<"\n">> ELSE buf
             withChildren(buf) ==
                 IF block.block_type \in childrenBlockTypes
                 THEN textChildren(block, 1, buf, st)
                 ELSE Out(buf, st)
         IN  withChildren(ended(parseElements(<<>>, block.elements,
                                              Len(block.elements) > 1, st)))

\* parseTextBlock: buf.write(this.parseBlock(child, this.indent)) for each child
textChildren(block, k, buf, st) ==
    IF k > Len(block.children) \/ st.threw THEN Out(buf, st)
    ELSE IF ~has(st, block.children[k]) THEN textChildren(block, k + 1, buf, st)
    ELSE LET written(r) == textChildren(block, k + 1, buf \o r.text, r.st)
         IN  written(parseBlock(get(st, block.children[k]), st.indent, st))

\* parseBulletBlock(block, indent)
parseBulletBlock(block, indent, st) ==
    LET item(r) ==
            listChildren(block, indent, 1,
                         <<"-", " ">> \o (IF compact(block, r.st) THEN trimLastNewline(r.text)
                                          ELSE r.text),
                         note(r.st, "compact", block.block_id, r.st.nextBlock.block_id))
    IN  item(parseTextBlock(block, st))

\* parseOrderedBlock(block, indent)
parseOrderedBlock(block, indent, st) ==
    LET item(order, r) ==
            listChildren(block, indent, 1,
                         numToStr(order) \o <<".", " ">>
                             \o (IF compact(block, r.st) THEN trimLastNewline(r.text)
                                 ELSE r.text),
                         note(r.st, "compact", block.block_id, r.st.nextBlock.block_id))
        numbered(order) ==
            item(order, parseTextBlock(block, note(st, "order", block.block_id, order)))
    IN  numbered(orderOf(block, st))

\* a sub-list that is walked twice
listChildrenTwice(block, indent, k, buf, st) ==
    LET again(r) == textChildren(block, k, r.text, r.st)
    IN  again(textChildren(block, k, buf, st))

\* parseBulletBlock / parseOrderedBlock: the sub-list, each child at indent + 1
listChildren(block, indent, k, buf, st) ==
    IF k > Len(block.children) \/ st.threw THEN Out(buf, st)
    ELSE IF ~has(st, block.children[k]) THEN listChildren(block, indent, k + 1, buf, st)
    ELSE LET written(r) == listChildren(block, indent, k + 1, buf \o r.text, r.st)
         IN  written(parseBlock(get(st, block.children[k]), indent + 1,
                                [st EXCEPT !.nextBlock = NoBlock]))

\* parseTableCell / parseView / parseSyncedBlock: buf.write(this.parseBlock(child, 0))
plainChildren(block, k, buf, st) ==
    IF k > Len(block.children) \/ st.threw THEN Out(buf, st)
    ELSE IF ~has(st, block.children[k]) THEN plainChildren(block, k + 1, buf, st)
    ELSE LET written(r) == plainChildren(block, k + 1, buf \o r.text, r.st)
         IN  written(parseBlock(get(st, block.children[k]), 0, st))

parseTableCell(block, st) == plainChildren(block, 1, <<>>, st)

parseView(block, st) == plainChildren(block, 1, <<>>, st)

parseSyncedBlock(block, st) == plainChildren(block, 1, <<>>, st)

\* parseTable / parseTableAsHTML: table.cells.forEach((blockId, idx) => ...), from
\* the k-th cell (idx = k - 1); rows[row] of a row that was never pushed throws
tableRows(table, k, rows, st, html) ==
    IF k > Len(table.cells) \/ st.threw THEN [rows |-> rows, st |-> st]
    ELSE IF ~has(st, table.cells[k]) THEN tableRows(table, k + 1, rows, st, html)
    ELSE LET row == IF table.column_size > 0 THEN (k - 1) \div table.column_size ELSE -1
             rows1 == IF Len(rows) < row + 1 THEN Append(rows, <<>>) ELSE rows
             cellText(r) == IF html THEN trim(markdownToHTML(r.text))
                            ELSE flattenNewlines(trimLastNewline(r.text))
             pushed(r) ==
                 IF row < 0 \/ row + 1 > Len(rows1)
                 THEN [rows |-> rows1, st |-> [r.st EXCEPT !.threw = TRUE]]
                 ELSE tableRows(table, k + 1,
                                [rows1 EXCEPT ![row + 1] = Append(@, cellText(r))],
                                r.st, html)
         IN  pushed(parseBlock(get(st, table.cells[k]), 0, st))

\* parseTable(table)
parseTable(block, st) ==
    IF ~block.has_table THEN Out(<<>>, st)
    ELSE LET written(html, c) ==
                 IF c.st.threw THEN Out(<<>>, c.st)
                 ELSE Out(IF html THEN htmlTable(block, c.rows)
                          ELSE gfmTable(block, c.rows), c.st)
             collected(html) == written(html, tableRows(block, 1, << <<>> >>, st, html))
         IN  collected(isComplexTable(block))

\* parseQuoteContainer
parseQuoteContainer(block, st) == quoteChildren(block, 1, <<>>, st)

quoteChildren(block, k, buf, st) ==
    IF k > Len(block.children) \/ st.threw THEN Out(buf, st)
    ELSE IF ~has(st, block.children[k]) THEN quoteChildren(block, k + 1, buf, st)
    ELSE LET written(r) == quoteChildren(block, k + 1, buf \o <<">", " ">> \o r.text, r.st)
         IN  written(parseBlock(get(st, block.children[k]), 0, st))

\* parseGrid
parseGrid(block, st) ==
    LET columnSize == IF block.grid_column_size # 0 THEN block.grid_column_size ELSE 1
        closed(r) == Out(r.text \o <<"</div>", "\n">>, r.st)
    IN  closed(gridChildren(block, 1,
                 <<"<div class=\"grid\" style=\"display: grid; grid-template-columns: repeat(">>
                 \o numToStr(columnSize) \o <<", 1fr); gap: 16px;\">", "\n">>, st))

gridChildren(block, k, buf, st) ==
    IF k > Len(block.children) \/ st.threw THEN Out(buf, st)
    ELSE IF ~has(st, block.children[k]) THEN gridChildren(block, k + 1, buf, st)
    ELSE LET written(r) == gridChildren(block, k + 1, buf \o r.text, r.st)
         IN  written(parseGridColumn(get(st, block.children[k]), st))

\* parseGridColumn
parseGridColumn(block, st) ==
    LET column(inner) ==
            Out(<<"<div class=\"grid-column\" style=\"flex: ">>
                    \o numToStr(IF block.width_ratio # 0 THEN block.width_ratio ELSE 1)
                    \o <<";\">", "\n">>
                    \o markdownToHTML(inner.text) \o <<"</div>", "\n">>, inner.st)
    IN  column(mapChildren(block, 1, <<>>, st))

\* children.map(childId => child ? this.parseBlock(child, 0) : "").join("\n")
mapChildren(block, k, buf, st) ==
    IF k > Len(block.children) \/ st.threw THEN Out(buf, st)
    ELSE LET sep == IF k > 1 THEN <<"\n">> ELSE <<>>
         IN  IF ~has(st, block.children[k])
             THEN mapChildren(block, k + 1, buf \o sep, st)
             ELSE LET written(r) == mapChildren(block, k + 1, buf \o sep \o r.text, r.st)
                  IN  written(parseBlock(get(st, block.children[k]), 0, st))

\* parseCallout
parseCallout(block, st) ==
    LET callout(inner) ==
            Out(calloutOpen(block) \o markdownToHTML(inner.text) \o <<"</div>", "\n">>,
                inner.st)
    IN  callout(mapChildren(block, 1, <<>>, st))

\* parse(blocks): blockMap.clear(), _fileTokens = [], the lookup, the root, the walk
blockMapOf(list) ==
    [id \in {list[i].block_id : i \in 1..Len(list)} |->
        list[CHOOSE i \in 1..Len(list) :
                /\ list[i].block_id = id
                /\ \A j \in (i + 1)..Len(list) : list[j].block_id # id]]

hasRoot(list) == \E i \in 1..Len(list) : list[i].block_type = "Page"

rootBlock(list) ==
    list[CHOOSE i \in 1..Len(list) :
            /\ list[i].block_type = "Page"
            /\ \A j \in 1..(i - 1) : list[j].block_type # "Page"]

\* a variant of parse that returns an empty document when there is no Page block
parseWithoutRootCheck(list, st0) ==
    LET st == [st0 EXCEPT !.blockMap = blockMapOf(list), !.fileTokens = <<>>,
                          !.threw = FALSE, !.log = <<>>]
        walked(r) == IF r.st.threw THEN Out(<<>>, r.st)
                     ELSE Out(trim(r.text) \o <<"\n">>, r.st)
    IN  IF ~hasRoot(list) THEN Out(<<"\n">>, st)
        ELSE walked(parseBlock(rootBlock(list), 0, st))

\* parse(blocks): [text |-> the returned Markdown, st |-> the renderer afterwards];
\* st.threw tells that the call threw instead of returning
parse(list, st0) ==
    LET st == [st0 EXCEPT !.blockMap = blockMapOf(list), !.fileTokens = <<>>,
                          !.threw = FALSE, !.log = <<>>]
        walked(r) == IF r.st.threw THEN Out(<<>>, r.st)
                     ELSE Out(trim(r.text) \o <<"\n">>, r.st)
    IN  IF ~hasRoot(list) THEN Out(<<>>, [st EXCEPT !.threw = TRUE])
        ELSE walked(parseBlock(rootBlock(list), 0, st))

-----------------------------------------------------------------------------
(* utils/file.ts and api/media.ts *)

srcPattern(value) == <<"src=\"">> \o value \o <<"\"">>

linkPattern(value) == <<"]", "(">> \o value \o <<")">>

\* a variant of replaceFileTokens that rewrites the src attributes only
RECURSIVE replaceSrcOnly(_, _)
replaceSrcOnly(text, entries) ==
    IF entries = <<>> THEN text
    ELSE LET e == Head(entries)
         IN  replaceSrcOnly(replaceAll(text, srcPattern(e.token), srcPattern(e.path)),
                            Tail(entries))

\* replaceFileTokens(markdown, tokenToPath), the map given as its entries in order
RECURSIVE replaceFileTokens(_, _)
replaceFileTokens(text, entries) ==
    IF entries = <<>> THEN text
    ELSE LET e == Head(entries)
             r1 == replaceAll(text, srcPattern(e.token), srcPattern(e.path))
             r2 == replaceAll(r1, linkPattern(e.token), linkPattern(e.path))
         IN  replaceFileTokens(r2, Tail(entries))

\* getExtension(type, contentType)
getExtension(type, contentType) ==
    IF type = "image"
    THEN IF contentType = "png" THEN <<".png">>
         ELSE IF contentType = "gif" THEN <<".gif">>
         ELSE IF contentType = "webp" THEN <<".webp">>
         ELSE IF contentType = "svg" THEN <<".svg">>
         ELSE <<".jpg">>
    ELSE IF type = "board" THEN <<".png">>
    ELSE <<>>

\* downloadAllMedia: join(subDir, `${ft.token}${ext}`)
localPath(ft, contentType) ==
    (IF ft.type \in {"image", "board"} THEN <<"images", "/">> ELSE <<"files", "/">>)
    \o ft.token \o getExtension(ft.type, contentType)

\* a map that forgets its earlier entries when one is set
mapSetAlone(entries, token, path) == <<[token |-> token, path |-> path]>>

\* Map.prototype.set
mapSet(entries, token, path) ==
    IF \E i \in 1..Len(entries) : entries[i].token = token
    THEN [i \in 1..Len(entries) |->
            IF entries[i].token = token THEN [token |-> token, path |-> path]
            ELSE entries[i]]
    ELSE Append(entries, [token |-> token, path |-> path])

\* the content types a download response may carry
ContentTypes == {"png", "other"}

\* a variant of afterAttempt that returns the map after the first attempt
afterFirstAttempt(attempted, fileTokens) == "replace"

\* downloadAllMedia: the loop goes on while entries are left, then the map is returned
afterAttempt(attempted, fileTokens) ==
    IF attempted < Len(fileTokens) THEN "download" ELSE "replace"

\* exportDocument: what follows the render
afterRender(images, fileTokens) ==
    IF images /\ fileTokens # <<>> THEN "download" ELSE "write"

NoFile == [written |-> FALSE, content |-> <<>>]

-----------------------------------------------------------------------------
(* api/document.ts *)

\* getAllDocumentBlocks before its first request: pageToken undefined (the empty
\* string here), allBlocks empty, nothing sent or received
NoFetch == [pageToken |-> <<>>, allBlocks |-> <<>>, requests |-> <<>>, responses |-> <<>>]

\* feishuRequest: throws on a response that is not OK or whose code is not 0,
\* returns data.data otherwise
feishuRequest(resp) ==
    IF ~resp.ok \/ resp.code # 0 THEN [threw |-> TRUE, data |-> <<>>]
    ELSE [threw |-> FALSE, data |-> resp]

\* a page token that stops at the first empty token only
nextPageTokenAlways(data) == data.page_token

\* pageToken = data.has_more ? data.page_token : undefined
nextPageToken(data) == IF data.has_more THEN data.page_token ELSE <<>>

-----------------------------------------------------------------------------
(* The steps of exportDocument *)

\* renderer.parse(blocks); a throw ends the run (process.exit(1))
Parse ==
    /\ pc = "render"
    /\ LET returned(r) ==
               /\ renderer' = r.st
               /\ markdown' = r.text
               /\ rendered' = r.text
               /\ pc' = IF r.st.threw THEN "aborted"
                        ELSE afterRender(downloadImages, r.st.fileTokens)
       IN  returned(parse(blocks, renderer))
    /\ trace' = Append(trace, "parse")
    /\ UNCHANGED <<fetch, blocks, downloadImages, dl, tokenToPath, outFile>>

\* downloadAllMedia: one iteration of for (const ft of fileTokens)
Download ==
    /\ pc = "download"
    /\ dl < Len(renderer.fileTokens)
    /\ \E outcome \in {"ok", "not ok", "exception"}, contentType \in ContentTypes :
          LET ft == renderer.fileTokens[dl + 1]
          IN  tokenToPath' =
                 IF outcome = "ok" THEN mapSet(tokenToPath, ft.token, localPath(ft, contentType))
                 ELSE tokenToPath
    /\ dl' = dl + 1
    /\ pc' = afterAttempt(dl + 1, renderer.fileTokens)
    /\ trace' = Append(trace, "download")
    /\ UNCHANGED <<fetch, blocks, downloadImages, renderer, markdown, outFile, rendered>>

\* markdown = replaceFileTokens(markdown, tokenToPath)
Replace ==
    /\ pc = "replace"
    /\ markdown' = replaceFileTokens(markdown, tokenToPath)
    /\ pc' = "write"
    /\ trace' = Append(trace, "replace")
    /\ UNCHANGED <<fetch, blocks, downloadImages, renderer, dl, tokenToPath, outFile, rendered>>

\* await writeFile(outputPath, markdown)
Write ==
    /\ pc = "write"
    /\ outFile' = [written |-> TRUE, content |-> markdown]
    /\ pc' = "done"
    /\ trace' = Append(trace, "write")
    /\ UNCHANGED <<fetch, blocks, downloadImages, renderer, markdown, dl, tokenToPath, rendered>>

\* mkdir in downloadAllMedia or writeFile throws: the catch of the command ends
\* the run with process.exit(1)
Fail ==
    /\ \/ pc = "download" /\ dl = 0
       \/ pc = "write"
    /\ pc' = "aborted"
    /\ trace' = Append(trace, "fail")
    /\ UNCHANGED <<fetch, blocks, downloadImages, renderer, markdown, dl, tokenToPath, outFile,
                   rendered>>

-----------------------------------------------------------------------------
(* Documents *)

\* the text of block id, one letter
Letter ==
    <<"a", "b", "c", "d", "e", "f", "g", "h", "i", "j", "k", "l", "m",
      "n", "o", "p", "q", "r", "s", "t", "u", "v", "w", "x", "y", "z">>

PlainRun(id) == TextRun(<<Letter[id]>>, NoStyle)

\* the numbers of a finite set, in increasing order
ascending(S) ==
    [k \in 1..Cardinality(S) |-> CHOOSE x \in S : Cardinality({y \in S : y < x}) = k - 1]

(* Trees: block 1 is the Page; block i > 1 has parent par[i] < i and type ty[i],  *)
(* so the children of a block are in increasing id order.  A block of type       *)
(* Missing is listed by its parent and absent from the block list.               *)

TextualTypes == {"Text", "Bullet", "Ordered", "Quote", "TodoList", "Code"} \cup HeadingTypes

\* the container type a tree may use besides the list and paragraph types; Sheet
\* is a type parseBlock has no case for
ContainerTypes ==
    {"QuoteContainer", "View", "SyncedBlock", "Callout", "Grid", "TableCell", "Sheet"}
    \cup HeadingTypes

TreeTypes(container) == {"Text", "Bullet", "Ordered", "Missing", container}

treeBlock(id, type, parent, children) ==
    IF type \in TextualTypes \cup {"Page"}
    THEN TextualBlock(id, type, parent, children,
                      IF type = "Page" THEN <<>> ELSE <<PlainRun(id)>>)
    ELSE IF type = "Callout"
         THEN [Block(id, type, parent, children) EXCEPT !.has_callout = TRUE]
         ELSE Block(id, type, parent, children)

treeDoc(n, par, ty) ==
    LET kids(p) == ascending({i \in 2..(n + 1) : par[i] = p})
        present == ascending({i \in 2..(n + 1) : ty[i] # "Missing"})
    IN  <<treeBlock(1, "Page", 0, kids(1))>>
        \o [k \in 1..Len(present) |->
               treeBlock(present[k], ty[present[k]], par[present[k]], kids(present[k]))]

\* the parent vectors of the trees with n non-root blocks
TreeShapes(n) == {f \in [2..(n + 1) -> 1..n] : \A i \in 2..(n + 1) : f[i] < i}

\* no block hangs below a Missing one
WellFormedTree(n, par, ty) ==
    \A i \in 2..(n + 1) : IF par[i] = 1 THEN TRUE ELSE ty[par[i]] # "Missing"

InitWith(doc) ==
    /\ blocks = doc
    /\ pc = "render"
    /\ downloadImages = TRUE
    /\ renderer = NoRenderer
    /\ markdown = <<>>
    /\ dl = 0
    /\ tokenToPath = <<>>
    /\ outFile = NoFile
    /\ rendered = <<>>
    /\ fetch = NoFetch
    /\ trace = <<>>

InitTree ==
    \E n \in 1..MaxBlocks, container \in ContainerTypes :
        \E par \in TreeShapes(n), ty \in [2..(n + 1) -> TreeTypes(container)] :
            /\ WellFormedTree(n, par, ty)
            /\ InitWith(treeDoc(n, par, ty))

NextTree == Parse \/ Write

SpecTree == InitTree /\ [][NextTree]_vars

(* Tables: block 1 is the Page and block 2 its only child, the Table; with n      *)
(* cells, cell k of the cell list is block 2 + k and holds one paragraph, block  *)
(* 2 + n + k.  The cells in missing are listed by the table and absent from the  *)
(* block list, together with their paragraphs.                                   *)

cellId(k) == 2 + k

cellTextId(n, k) == 2 + n + k

NoSpan == [row_span |-> 1, col_span |-> 1]

\* merge_info: left out, or one entry per cell with at most one origin whose spans
\* stay inside the table
MergeInfos(rows, cols) ==
    {<<>>} \cup
    UNION {UNION {
        {[t \in 1..(rows * cols) |->
            IF t = (r - 1) * cols + c THEN [row_span |-> rs, col_span |-> cs] ELSE NoSpan] :
            rs \in {x \in 1..MaxSpan : r + x - 1 <= rows},
            cs \in {x \in 1..MaxSpan : c + x - 1 <= cols}} :
        c \in 1..cols} : r \in 1..rows}

\* column_width: left out, or one width per column
ColumnWidths(cols) == {<<>>} \cup [1..cols -> {100, 120}]

tableDoc(rows, cols, header, widths, merge, missing, pipe) ==
    LET n == rows * cols
        there == ascending((1..n) \ missing)
        table == [Block(2, "Table", 1, [k \in 1..n |-> cellId(k)]) EXCEPT
                     !.has_table = TRUE,
                     !.cells = [k \in 1..n |-> cellId(k)],
                     !.row_size = rows,
                     !.column_size = cols,
                     !.column_width = widths,
                     !.header_row = header,
                     !.merge_info = merge]
    IN  <<treeBlock(1, "Page", 0, <<2>>), table>>
        \o [k \in 1..Len(there) |->
               Block(cellId(there[k]), "TableCell", 2, <<cellTextId(n, there[k])>>)]
        \o [k \in 1..Len(there) |->
               TextualBlock(cellTextId(n, there[k]), "Text", cellId(there[k]), <<>>,
                            IF pipe /\ there[k] = 1
                            THEN <<TextRun(<<"|">>, NoStyle)>>
                            ELSE <<PlainRun(cellTextId(n, there[k]))>>)]

InitTable ==
    \E rows \in 1..MaxRows, cols \in 1..MaxCols, header \in BOOLEAN, pipe \in BOOLEAN :
        \E widths \in ColumnWidths(cols), merge \in MergeInfos(rows, cols),
           missing \in {m \in SUBSET (1..(rows * cols)) : Cardinality(m) <= MaxMissing} :
            InitWith(tableDoc(rows, cols, header, widths, merge, missing, pipe))

NextTable == Parse \/ Write

SpecTable == InitTable /\ [][NextTable]_vars

(* Inline text: block 1 is the Page and block 2 its only child, a paragraph or a  *)
(* code block whose elements are text runs.  Run i is written with letter i.     *)

StyleFlags == {"bold", "italic", "strikethrough", "underline", "inline_code", "link"}

\* the styles of a run: none, one flag, or one of three pairs of flags
StyleSets ==
    {{}} \cup {{f} : f \in StyleFlags}
    \cup {{"bold", "italic"}, {"italic", "underline"}, {"inline_code", "link"}}

styleOf(flags) ==
    [bold |-> "bold" \in flags, italic |-> "italic" \in flags,
     strikethrough |-> "strikethrough" \in flags, underline |-> "underline" \in flags,
     inline_code |-> "inline_code" \in flags,
     link |-> IF "link" \in flags THEN <<"u">> ELSE <<>>]

ContentKinds == {"plain", "colon", "widecolon", "angle", "star", "empty"}

contentOf(kind, i) ==
    CASE kind = "plain" -> <<Letter[i]>>
      [] kind = "colon" -> <<Letter[i], ":">>
      [] kind = "widecolon" -> <<Letter[i], "fullwidth-colon">>
      [] kind = "angle" -> <<"<", Letter[i], ">">>
      [] kind = "star" -> <<Letter[i], "*">>
      [] OTHER -> <<>>

inlineDoc(type, kinds, flags) ==
    <<treeBlock(1, "Page", 0, <<2>>),
      TextualBlock(2, type, 1, <<>>,
                   [i \in 1..Len(kinds) |-> TextRun(contentOf(kinds[i], i), styleOf(flags[i]))])>>

InitInline ==
    \E n \in 1..MaxRuns, type \in {"Text", "Code"} :
        \E kinds \in [1..n -> ContentKinds], flags \in [1..n -> StyleSets] :
            InitWith(inlineDoc(type, kinds, flags))

NextInline == Parse \/ Write

SpecInline == InitInline /\ [][NextInline]_vars

(* Exports: a list with or without the Page block, followed by blocks 2, 3, ...  *)
(* that are images, boards, files or paragraphs, and the --no-images switch.     *)

Tokens == {<<"t1">>, <<"t2">>}

MediaItems ==
    [kind : {"Image", "Board", "File"}, token : Tokens \cup {<<>>}]
    \cup {[kind |-> "Text", token |-> <<>>]}

mediaBlock(id, item) ==
    IF item.kind = "Text" THEN treeBlock(id, "Text", 1, <<>>)
    ELSE [Block(id, item.kind, 1, <<>>) EXCEPT
             !.has_media = TRUE, !.token = item.token,
             !.name = IF item.kind = "File" THEN <<Letter[id]>> ELSE <<>>]

exportDoc(root, items) ==
    (IF root THEN <<treeBlock(1, "Page", 0, [k \in 1..Len(items) |-> k + 1])>> ELSE <<>>)
    \o [k \in 1..Len(items) |-> mediaBlock(k + 1, items[k])]

Init ==
    \E n \in 0..MaxMedia, root \in BOOLEAN, images \in BOOLEAN :
        \E items \in [1..n -> MediaItems] :
            /\ blocks = exportDoc(root, items)
            /\ pc = "render"
            /\ downloadImages = images
            /\ renderer = NoRenderer
            /\ markdown = <<>>
            /\ dl = 0
            /\ tokenToPath = <<>>
            /\ outFile = NoFile
            /\ rendered = <<>>
            /\ fetch = NoFetch
            /\ trace = <<>>

Next == Parse \/ Download \/ Replace \/ Write \/ Fail

Spec == Init /\ [][Next]_vars

(* replaceFileTokens on its own: a text of up to MaxLen pieces and a map as       *)
(* downloadAllMedia builds it, one entry per token with the path of its kind.    *)

Pieces ==
    {srcPattern(t) : t \in Tokens} \cup {linkPattern(t) : t \in Tokens}
    \cup {<<"t1">>, <<"src=\"">>, <<"]", "(">>, <<"x">>}

RECURSIVE joinPieces(_)
joinPieces(ps) == IF ps = <<>> THEN <<>> ELSE Head(ps) \o joinPieces(Tail(ps))

\* the entry downloadAllMedia sets for a token of this kind
entryOf(t, ty) == [token |-> t, path |-> localPath([token |-> t, type |-> ty], "png")]

\* the maps: no entry, one entry, or an entry for each token in either order
TokenMaps ==
    {<<>>}
    \cup {<<entryOf(t, ty)>> : t \in Tokens, ty \in {"image", "file"}}
    \cup {m \in {<<entryOf(t, ty), entryOf(u, uy)>> :
                    t \in Tokens, u \in Tokens, ty \in {"image", "file"},
                    uy \in {"image", "file"}} : m[1].token # m[2].token}

InitReplace ==
    \E n \in 0..MaxLen, map \in TokenMaps :
        \E ps \in [1..n -> Pieces] :
            /\ blocks = <<>>
            /\ pc = "replace"
            /\ downloadImages = TRUE
            /\ renderer = NoRenderer
            /\ markdown = joinPieces(ps)
            /\ dl = 0
            /\ tokenToPath = map
            /\ outFile = NoFile
            /\ rendered = joinPieces(ps)
            /\ fetch = NoFetch
            /\ trace = <<>>

NextReplace == Replace \/ Write

SpecReplace == InitReplace /\ [][NextReplace]_vars

(* Media trees: trees as above whose blocks are images, boards, files, views    *)
(* and quotes, each media block with one of the tokens or an empty one.         *)

MediaKinds == {"Image", "Board", "File", "View", "Quote"}

mediaTreeBlock(id, kind, token, parent, children) ==
    IF kind \in {"Image", "Board", "File"}
    THEN [Block(id, kind, parent, children) EXCEPT
             !.has_media = TRUE, !.token = token,
             !.name = IF kind = "File" THEN <<Letter[id]>> ELSE <<>>]
    ELSE treeBlock(id, kind, parent, children)

mediaDoc(n, par, kinds, toks) ==
    LET kids(p) == ascending({i \in 2..(n + 1) : par[i] = p})
    IN  <<treeBlock(1, "Page", 0, kids(1))>>
        \o [k \in 1..n |-> mediaTreeBlock(k + 1, kinds[k + 1], toks[k + 1], par[k + 1],
                                          kids(k + 1))]

InitMedia ==
    \E n \in 1..MaxBlocks :
        \E par \in TreeShapes(n), kinds \in [2..(n + 1) -> MediaKinds],
           toks \in [2..(n + 1) -> Tokens \cup {<<>>}] :
            InitWith(mediaDoc(n, par, kinds, toks))

NextMedia == Parse \/ Write

SpecMedia == InitMedia /\ [][NextMedia]_vars

(* Nested trees: trees as above, one block larger, of quote containers,         *)
(* paragraphs, bullets and ordered items.                                       *)

NestedTypes == {"QuoteContainer", "Text", "Bullet", "Ordered"}

InitNested ==
    \E n \in 1..MaxNested :
        \E par \in TreeShapes(n), ty \in [2..(n + 1) -> NestedTypes] :
            InitWith(treeDoc(n, par, ty))

NextNested == Parse \/ Write

SpecNested == InitNested /\ [][NextNested]_vars

(* Bracketed text: trees as above whose blocks are paragraphs, code blocks,     *)
(* bullets and quotes; block i holds one run, letter i between angle brackets. *)

EscapeTypes == {"Text", "Code", "Bullet", "Quote"}

EscapeStyles == {{}, {"inline_code"}, {"bold", "inline_code"}}

escapeBlock(id, type, flags, parent, children) ==
    TextualBlock(id, type, parent, children,
                 <<TextRun(<<"<", Letter[id], ">">>, styleOf(flags))>>)

escapeDoc(n, par, ty, flags) ==
    LET kids(p) == ascending({i \in 2..(n + 1) : par[i] = p})
    IN  <<treeBlock(1, "Page", 0, kids(1))>>
        \o [k \in 1..n |-> escapeBlock(k + 1, ty[k + 1], flags[k + 1], par[k + 1],
                                       kids(k + 1))]

InitEscape ==
    \E n \in 1..MaxBlocks :
        \E par \in TreeShapes(n), ty \in [2..(n + 1) -> EscapeTypes],
           flags \in [2..(n + 1) -> EscapeStyles] :
            InitWith(escapeDoc(n, par, ty, flags))

NextEscape == Parse \/ Write

SpecEscape == InitEscape /\ [][NextEscape]_vars

(* Callouts: a page holding one callout with a background, border and text    *)
(* color id each (0 stands for an absent id), with or without an emoji and a   *)
(* paragraph inside.                                                           *)

ColorIds == 0..MaxColor

calloutDoc(bg, border, color, emoji, filled) ==
    <<treeBlock(1, "Page", 0, <<2>>),
      [Block(2, "Callout", 1, IF filled THEN <<3>> ELSE <<>>) EXCEPT
          !.has_callout = TRUE, !.background_color = bg, !.border_color = border,
          !.text_color = color, !.emoji_id = IF emoji THEN <<"bulb">> ELSE <<>>]>>
    \o (IF filled THEN <<treeBlock(3, "Text", 2, <<>>)>> ELSE <<>>)

InitCallout ==
    \E bg \in ColorIds, border \in ColorIds, color \in ColorIds :
        \E emoji \in BOOLEAN, filled \in BOOLEAN :
            InitWith(calloutDoc(bg, border, color, emoji, filled))

NextCallout == Parse \/ Write

SpecCallout == InitCallout /\ [][NextCallout]_vars

(* A renderer used twice: the renderer has returned from parse(A) and is      *)
(* handed a second list B.  A and B are pages with or without a title, holding *)
(* up to MaxAgain paragraphs, bullets and images; either may lack its page.    *)

AgainKinds == {"Text", "Bullet", "Image"}

titledDoc(rooted, title, n, kinds) ==
    (IF rooted
     THEN <<TextualBlock(1, "Page", 0, [k \in 1..n |-> k + 1],
                         IF title = 0 THEN <<>> ELSE <<PlainRun(title)>>)>>
     ELSE <<>>)
    \o [k \in 1..n |->
           mediaTreeBlock(k + 1, kinds[k], IF k = 1 THEN <<"t1">> ELSE <<"t2">>, 1, <<>>)]

AgainDocs ==
    {titledDoc(rooted, title, n, kinds) :
        rooted \in BOOLEAN, title \in {0, 24, 25},
        n \in 0..MaxAgain, kinds \in [1..MaxAgain -> AgainKinds]}

InitAgain ==
    \E A \in AgainDocs, B \in AgainDocs :
        /\ blocks = B
        /\ pc = "render"
        /\ downloadImages = TRUE
        /\ renderer = parse(A, NoRenderer).st
        /\ markdown = <<>>
        /\ dl = 0
        /\ tokenToPath = <<>>
        /\ outFile = NoFile
        /\ rendered = <<>>
        /\ fetch = NoFetch
        /\ trace = <<>>

NextAgain == Parse \/ Write

SpecAgain == InitAgain /\ [][NextAgain]_vars

(* Fetching: the server answers each request with any response: failed or not, *)
(* with up to two blocks, with or without has_more and a page token.  A        *)
(* response without items is one whose items are empty.                        *)

Responses ==
    [ok : BOOLEAN, code : {0, 1},
     items : {<<>>} \cup {<<treeBlock(a, "Text", 1, <<>>)>> : a \in 2..3}
             \cup {<<treeBlock(a, "Text", 1, <<>>), treeBlock(b, "Text", 1, <<>>)>> :
                       a \in 2..3, b \in 2..3},
     has_more : BOOLEAN, page_token : {<<>>, <<"p1">>, <<"p2">>}]

InitFetch ==
    /\ pc = "fetch"
    /\ fetch = NoFetch
    /\ blocks = <<>>
    /\ \E images \in BOOLEAN : downloadImages = images
    /\ renderer = NoRenderer
    /\ markdown = <<>>
    /\ dl = 0
    /\ tokenToPath = <<>>
    /\ outFile = NoFile
    /\ rendered = <<>>
    /\ trace = <<>>

\* getAllDocumentBlocks: one pass of the do ... while loop, and the return to
\* exportDocument or the throw that ends it
Request ==
    /\ pc = "fetch"
    /\ Len(fetch.requests) < MaxPages
    /\ \E resp \in Responses :
          LET answered(r) ==
                  IF r.threw
                  THEN /\ fetch' = [fetch EXCEPT
                                       !.requests = Append(@, fetch.pageToken),
                                       !.responses = Append(@, resp)]
                       /\ pc' = "aborted"
                       /\ blocks' = blocks
                  ELSE /\ fetch' = [fetch EXCEPT
                                       !.requests = Append(@, fetch.pageToken),
                                       !.responses = Append(@, resp),
                                       !.allBlocks = @ \o r.data.items,
                                       !.pageToken = nextPageToken(r.data)]
                       /\ pc' = IF nextPageToken(r.data) # <<>> THEN "fetch" ELSE "render"
                       /\ blocks' = IF nextPageToken(r.data) # <<>> THEN blocks
                                    ELSE fetch.allBlocks \o r.data.items
          IN  answered(feishuRequest(resp))
    /\ trace' = Append(trace, "request")
    /\ UNCHANGED <<downloadImages, renderer, markdown, dl, tokenToPath, outFile, rendered>>

SpecFetch == InitFetch /\ [][Request]_vars

-----------------------------------------------------------------------------
(* Reading the document and the output *)

present(id) == \E k \in 1..Len(blocks) : blocks[k].block_id = id

blockOf(id) ==
    IF present(id) THEN blocks[CHOOSE k \in 1..Len(blocks) : blocks[k].block_id = id]
    ELSE NoBlock

\* the type of the block an id refers to, Missing when the list holds no such block
typeOf(id) == IF present(id) THEN blockOf(id).block_type ELSE "Missing"

\* the places of a block in the child sequence of its parent
placesOf(b) ==
    {i \in 1..Len(blockOf(b.parent_id).children) :
        blockOf(b.parent_id).children[i] = b.block_id}

\* the positions of the text of block id in the output
positionsOf(id) == {p \in 1..Len(markdown) : markdown[p] = Letter[id]}

\* a blank line lies between positions p and q of the output
blankLineBetween(p, q) ==
    \E a \in p..q, b \in p..q :
        /\ a < b
        /\ markdown[a] = "\n"
        /\ markdown[b] = "\n"
        /\ \A c \in (a + 1)..(b - 1) : markdown[c] = " "

\* the length of the longest run of ordered siblings that ends just before place i
orderedRunBefore(children, i) ==
    CHOOSE k \in 0..(i - 1) :
        /\ \A j \in (i - k)..(i - 1) : typeOf(children[j]) = "Ordered"
        /\ (k < i - 1 => typeOf(children[i - k - 1]) # "Ordered")

\* the events the walk recorded for block id under the name op
eventsOf(op, id) ==
    {k \in 1..Len(renderer.log) : renderer.log[k].op = op /\ renderer.log[k].id = id}

-----------------------------------------------------------------------------
(* Ordered and bulleted lists *)

\* C3: the ordinal written for an ordered item is 1 plus the number of ordered
\* siblings that come immediately and consecutively before it in the child
\* sequence of its parent, both in the walk's record and in the output text.
OrdinalCountsPrecedingRun ==
    pc # "render" =>
        \A k \in 1..Len(blocks) :
            blocks[k].block_type = "Ordered" /\ placesOf(blocks[k]) # {} =>
                LET b == blocks[k]
                    i == CHOOSE x \in placesOf(b) : \A y \in placesOf(b) : x <= y
                    expected == 1 + orderedRunBefore(blockOf(b.parent_id).children, i)
                IN  /\ \A e \in eventsOf("order", b.block_id) : renderer.log[e].n = expected
                    /\ \A p \in positionsOf(b.block_id) :
                          /\ p > 3
                          /\ SubSeq(markdown, p - 3, p - 1) = numToStr(expected) \o <<".", " ">>

\* an ordered item that follows another one was numbered 2 and written so
SecondOrderedItemWritten ==
    /\ pc # "render"
    /\ \E k \in 1..Len(renderer.log) :
          /\ renderer.log[k].op = "order"
          /\ renderer.log[k].n = 2
          /\ \E p \in positionsOf(renderer.log[k].id) :
                p > 3 /\ SubSeq(markdown, p - 3, p - 1) = <<"2", ".", " ">>

\* the pairs the compaction rule speaks of: x has no children and the id right
\* after it in the child sequence of its parent is an item y of the same list type
tightPair(x, y) ==
    /\ x.block_type \in {"Bullet", "Ordered"}
    /\ x.children = <<>>
    /\ y.block_type = x.block_type
    /\ y.parent_id = x.parent_id
    /\ \E i \in placesOf(x) :
          /\ i < Len(blockOf(x.parent_id).children)
          /\ blockOf(x.parent_id).children[i + 1] = y.block_id

-----------------------------------------------------------------------------
(* Tables *)

theTable == blockOf(2)

tableRendered == pc # "render" /\ typeOf(2) = "Table"

\* the output below the title line
tableText == SubSeq(markdown, 4, Len(markdown))

\* its lines, without the empty piece after the last newline
tableLines ==
    LET l == splitLines(tableText)
    IN  IF l[Len(l)] = <<>> THEN SubSeq(l, 1, Len(l) - 1) ELSE l

htmlOut == \E p \in 1..Len(markdown) : markdown[p] = "<table"

someSpanAbove1(t) ==
    \E i \in 1..Len(t.merge_info) :
        t.merge_info[i].row_span > 1 \/ t.merge_info[i].col_span > 1

someWidthAbove100(t) == \E i \in 1..Len(t.column_width) : t.column_width[i] > 100

allCellsPresent(t) == \A k \in 1..Len(t.cells) : present(t.cells[k])

\* no text run of the document holds a pipe
noPipeInText ==
    \A k \in 1..Len(blocks) : \A e \in 1..Len(blocks[k].elements) :
        \A i \in 1..Len(blocks[k].elements[e].content) :
            blocks[k].elements[e].content[i] # "|"

\* the separator line of a pipe table with cols columns
ruleLine(cols) == <<"|">> \o [i \in 1..(4 * cols) |-> IF i % 4 = 0 THEN "|" ELSE "-"]

\* a line made of exactly two cells, each closed by a pipe
twoCells(line) ==
    /\ Len(line) >= 3
    /\ line[1] = "|"
    /\ line[Len(line)] = "|"
    /\ Cardinality({i \in 1..Len(line) : line[i] = "|"}) = 3

\* the positions in the output of the text of cell k
cellPositions(t, k) == positionsOf(cellTextId(Len(t.cells), k))

\* cell k lies in the rectangle of the merge whose origin is cell o
coveredBy(t, o, k) ==
    LET cols == t.column_size
        m == t.merge_info[o]
        ro == (o - 1) \div cols
        co == (o - 1) % cols
        rk == (k - 1) \div cols
        ck == (k - 1) % cols
    IN  /\ k # o
        /\ m.row_span > 1 \/ m.col_span > 1
        /\ rk \in ro..(ro + m.row_span - 1)
        /\ ck \in co..(co + m.col_span - 1)

\* the attributes an origin with these spans is to carry
spanAttrs(m) ==
    (IF m.row_span > 1 THEN <<" rowspan=\"">> \o numToStr(m.row_span) \o <<"\"">> ELSE <<>>)
    \o (IF m.col_span > 1 THEN <<" colspan=\"">> \o numToStr(m.col_span) \o <<"\"">>
        ELSE <<>>)

\* the text of cell o is written at p inside a th or td that carries attrs
writtenWith(p, attrs) ==
    /\ p > Len(attrs) + 4
    /\ markdown[p - 1] = "<p>"
    /\ markdown[p - 2] = ">"
    /\ SubSeq(markdown, p - 2 - Len(attrs), p - 3) = attrs
    /\ markdown[p - 3 - Len(attrs)] \in {"td", "th"}
    /\ markdown[p - 4 - Len(attrs)] = "<"

\* C2: an id without a block in the lookup raises no error and adds no output,
\* and the blocks the other ids refer to are rendered in their order; here for
\* the cell ids of a pipe table.
MissingIdNeverRaises ==
    tableRendered =>
        /\ ~renderer.threw
        /\ ~htmlOut =>
              \A k \in 1..Len(theTable.cells), l \in 1..Len(theTable.cells) :
                  k < l /\ present(theTable.cells[k]) /\ present(theTable.cells[l]) =>
                      \A q \in cellPositions(theTable, l) :
                          \E p \in cellPositions(theTable, k) : p < q

\* C6: in an HTML table whose cells are all in the lookup and whose merge list is
\* complete, no cell inside the rectangle of a merge is written, and each origin
\* is written once with the rowspan and colspan of its spans.
CoveredCellsOmitted ==
    tableRendered /\ htmlOut /\ allCellsPresent(theTable) /\ noPipeInText
        /\ Len(theTable.merge_info) = Len(theTable.cells) =>
        \A o \in 1..Len(theTable.cells) :
            LET m == theTable.merge_info[o]
            IN  m.row_span > 1 \/ m.col_span > 1 =>
                    /\ Cardinality(cellPositions(theTable, o)) = 1
                    /\ \A p \in cellPositions(theTable, o) : writtenWith(p, spanAttrs(m))
                    /\ \A k \in 1..Len(theTable.cells) :
                          coveredBy(theTable, o, k) => cellPositions(theTable, k) = {}

\* C7: a table comes out as an HTML table exactly when a merge span is above 1 or
\* a column width is above 100, and as a pipe table otherwise.
HtmlIffSpanOrWideColumn ==
    tableRendered /\ ~renderer.threw =>
        /\ htmlOut <=> (someSpanAbove1(theTable) \/ someWidthAbove100(theTable))
        /\ ~htmlOut =>
              /\ Len(tableLines) >= 2
              /\ Len(tableLines[1]) >= 1 /\ tableLines[1][1] = "|"
              /\ tableLines[2] = ruleLine(theTable.column_size)

\* a table without any span above 1 came out as HTML because of a wide column
WideColumnTableWritten ==
    /\ tableRendered
    /\ htmlOut
    /\ ~someSpanAbove1(theTable)
    /\ someWidthAbove100(theTable)

\* the table of C8: two rows, two columns, a header row, nothing that makes it complex
plainTwoByTwo(t) ==
    /\ t.row_size = 2
    /\ t.column_size = 2
    /\ t.header_row
    /\ ~someSpanAbove1(t)
    /\ ~someWidthAbove100(t)

\* C8, as stated: such a table is written as four lines of two cells each.
TwoByTwoIsFourLines ==
    tableRendered /\ plainTwoByTwo(theTable) /\ allCellsPresent(theTable) /\ noPipeInText =>
        /\ Len(tableLines) = 4
        /\ \A i \in 1..Len(tableLines) : twoCells(tableLines[i])

\* C8, amended: when its four cells are in the lookup and their text holds no
\* pipe, such a table is written as three lines - the header with cells 1 and 2,
\* the separator, one body row with cells 3 and 4 - of two cells each.
TwoByTwoIsThreeLines ==
    tableRendered /\ plainTwoByTwo(theTable) /\ allCellsPresent(theTable) /\ noPipeInText =>
        /\ Len(tableLines) = 3
        /\ \A i \in 1..Len(tableLines) : twoCells(tableLines[i])
        /\ tableLines[1] = <<"|", Letter[cellTextId(4, 1)], "|", Letter[cellTextId(4, 2)], "|">>
        /\ tableLines[2] = ruleLine(2)
        /\ tableLines[3] = <<"|", Letter[cellTextId(4, 3)], "|", Letter[cellTextId(4, 4)], "|">>

\* such a table was written
PlainTwoByTwoWritten ==
    /\ tableRendered
    /\ plainTwoByTwo(theTable)
    /\ allCellsPresent(theTable)
    /\ noPipeInText
    /\ Len(tableLines) = 3

-----------------------------------------------------------------------------
(* Inline text *)

theParagraph == blockOf(2)

\* the output below the title line, without the final newline
bodyText == SubSeq(markdown, 4, Len(markdown) - 1)

\* the flags set in a style
flagsOf(style) ==
    {f \in StyleFlags \ {"link"} : style[f]} \cup (IF style.link # <<>> THEN {"link"} ELSE {})

\* the opening and the closing delimiter of a style with one flag
opening(style) ==
    CASE style.bold -> <<"*", "*">>
      [] style.italic -> <<"*">>
      [] style.strikethrough -> <<"~", "~">>
      [] style.underline -> <<"<", "u", ">">>
      [] style.inline_code -> <<"backtick">>
      [] OTHER -> <<"[">>

closing(style) ==
    CASE style.bold -> <<"*", "*">>
      [] style.italic -> <<"*">>
      [] style.strikethrough -> <<"~", "~">>
      [] style.underline -> <<"<", "/", "u", ">">>
      [] style.inline_code -> <<"backtick">>
      [] OTHER -> <<"]", "(">> \o style.link \o <<")">>

\* a paragraph of two runs of letters that carry the same single style
twoRunsOfOneStyle ==
    /\ pc # "render"
    /\ typeOf(2) = "Text"
    /\ Len(theParagraph.elements) = 2
    /\ theParagraph.elements[1].style = theParagraph.elements[2].style
    /\ Cardinality(flagsOf(theParagraph.elements[1].style)) = 1
    /\ \A i \in 1..2 : theParagraph.elements[i].content = <<Letter[i]>>

\* C5: two adjacent runs with the same single style are written inside one pair
\* of delimiters: the opening one, the two texts, the closing one.
SameStyleRunsShareDelimiters ==
    twoRunsOfOneStyle =>
        bodyText = opening(theParagraph.elements[1].style)
                   \o <<Letter[1], Letter[2]>>
                   \o closing(theParagraph.elements[1].style)

-----------------------------------------------------------------------------
(* The export pipeline *)

\* the number of entries of the trace with this name among the first n
countOf(name, n) == Cardinality({i \in 1..n : trace[i] = name})

\* C1: parse throws when the list holds no Page block, and the run then ends
\* without any download, any substitution and any file written.
RootlessRunAborts ==
    ~hasRoot(blocks) /\ pc # "render" =>
        /\ renderer.threw
        /\ pc = "aborted"
        /\ trace = <<"parse">>
        /\ dl = 0
        /\ tokenToPath = <<>>
        /\ markdown = <<>>
        /\ ~outFile.written

\* a list without Page block that holds a media block with a token was given to
\* parse, downloads being wanted
RootlessRunWithMediaAborted ==
    /\ ~hasRoot(blocks)
    /\ pc = "aborted"
    /\ downloadImages
    /\ \E k \in 1..Len(blocks) : blocks[k].has_media /\ blocks[k].token # <<>>

\* C9: the render comes first and is over before any download; the substitution
\* comes after one download attempt per collected token and no attempt follows
\* it; the file is written last, after the substitution when there were downloads.
StepsInOrder ==
    /\ trace # <<>> => trace[1] = "parse"
    /\ \A i \in 2..Len(trace) : trace[i] # "parse"
    /\ countOf("download", Len(trace)) = dl
    /\ dl <= Len(renderer.fileTokens)
    /\ \A i \in 1..Len(trace) :
          trace[i] = "replace" =>
              /\ countOf("download", i) = Len(renderer.fileTokens)
              /\ countOf("download", Len(trace)) = countOf("download", i)
              /\ countOf("replace", Len(trace)) = 1
    /\ \A i \in 1..Len(trace) :
          trace[i] = "write" =>
              /\ i = Len(trace)
              /\ outFile.written
              /\ countOf("download", i) > 0 => trace[i - 1] = "replace"
    /\ outFile.written => trace[Len(trace)] = "write"

\* a run with two downloads went through all its steps
RunWithTwoDownloadsDone ==
    /\ pc = "done"
    /\ trace = <<"parse", "download", "download", "replace", "write">>

-----------------------------------------------------------------------------
(* replaceFileTokens *)

isToken(map, c) == \E e \in 1..Len(map) : map[e].token = <<c>>

pathOf(map, c) == map[CHOOSE e \in 1..Len(map) : map[e].token = <<c>>].path

\* position p of the text is the value of a src attribute
inSrc(text, p) ==
    /\ p > 1
    /\ p < Len(text)
    /\ text[p - 1] = "src=\""
    /\ text[p + 1] = "\""

\* position p of the text is the target of a link
inLink(text, p) ==
    /\ p > 2
    /\ p < Len(text)
    /\ text[p - 2] = "]"
    /\ text[p - 1] = "("
    /\ text[p + 1] = ")"

\* the text with the path in the place of each token that is the value of a src
\* attribute or the target of a link, and every other position as it was
substituted(text, map) ==
    joinPieces([p \in 1..Len(text) |->
                   IF isToken(map, text[p]) /\ (inSrc(text, p) \/ inLink(text, p))
                   THEN pathOf(map, text[p])
                   ELSE <<text[p]>>])

\* C10: replaceFileTokens puts the path of each token of the map in every
\* src attribute and every link target that holds the token and changes nothing
\* else; with an empty map the text stays as it was.
ReplaceRewritesTokenPatternsOnly ==
    pc \in {"write", "done"} =>
        /\ markdown = substituted(rendered, tokenToPath)
        /\ tokenToPath = <<>> => markdown = rendered

\* a text with a src attribute, a link target and a bare occurrence of one token
\* of the map went through replaceFileTokens
ReplacedSrcAndLinkKeptBareToken ==
    /\ pc = "write"
    /\ \E p \in 1..Len(rendered), q \in 1..Len(rendered), r \in 1..Len(rendered) :
          /\ isToken(tokenToPath, rendered[p]) /\ inSrc(rendered, p)
          /\ isToken(tokenToPath, rendered[q]) /\ inLink(rendered, q)
          /\ isToken(tokenToPath, rendered[r])
          /\ ~inSrc(rendered, r) /\ ~inLink(rendered, r)
    /\ markdown # rendered

-----------------------------------------------------------------------------
(* The media references collected by the walk *)

\* the block types whose handler renders the blocks of block.children
walksInto ==
    {"Page", "Text", "Bullet", "Ordered", "TableCell", "View", "SyncedBlock",
     "QuoteContainer", "Callout"} \cup HeadingTypes

\* the entry a block contributes: one for a media block with a token, else none
entryFor(b) ==
    IF b.block_type \in {"Image", "Board", "File"} /\ b.has_media /\ b.token # <<>>
    THEN <<[token |-> b.token,
            type |-> CASE b.block_type = "Image" -> "image"
                       [] b.block_type = "Board" -> "board"
                       [] OTHER -> "file"]>>
    ELSE <<>>

\* the entries of a depth-first pre-order walk; stack holds the ids still to visit
RECURSIVE preorderEntries(_)
preorderEntries(stack) ==
    IF stack = <<>> THEN <<>>
    ELSE LET b == blockOf(Head(stack))
         IN  entryFor(b)
             \o preorderEntries((IF b.block_type \in walksInto THEN b.children ELSE <<>>)
                                \o Tail(stack))

\* C11: once parse has returned, the token list is the sequence of (token, kind)
\* entries, one per rendered Image, Board and File block with a non-empty token
\* and with the kind of the block type, in the order of a depth-first pre-order
\* walk from the root.
TokensFollowPreorder ==
    pc # "render" /\ ~renderer.threw => renderer.fileTokens = preorderEntries(<<1>>)

\* a board inside a view was collected before an image that follows the view
NestedBoardCollectedBeforeImage ==
    /\ pc # "render"
    /\ renderer.fileTokens =
           <<[token |-> <<"t2">>, type |-> "board"], [token |-> <<"t1">>, type |-> "image"]>>
    /\ \E k \in 1..Len(blocks) :
          /\ blocks[k].block_type = "Board"
          /\ blockOf(blocks[k].parent_id).block_type = "View"

-----------------------------------------------------------------------------
(* The text parse returns *)

\* C12: for every block list with a Page block, the text returned by parse starts
\* with a character that is no whitespace and ends with exactly one newline, and
\* the character before that newline is no whitespace.
ReturnedTextIsTrimmed ==
    pc # "render" /\ ~renderer.threw =>
        /\ Len(rendered) >= 2
        /\ rendered[1] \notin Whitespace
        /\ rendered[Len(rendered)] = "\n"
        /\ rendered[Len(rendered) - 1] \notin Whitespace

\* a document whose last top-level block is a paragraph, after which the Page
\* loop wrote one more newline, was returned ending in its letter and a newline
ParagraphLastReturnedTrimmed ==
    /\ pc # "render"
    /\ Len(blockOf(1).children) >= 2
    /\ LET last == blockOf(1).children[Len(blockOf(1).children)]
       IN  /\ typeOf(last) = "Text"
           /\ blockOf(last).children = <<>>
           /\ Len(rendered) >= 2
           /\ SubSeq(rendered, Len(rendered) - 1, Len(rendered)) = <<Letter[last], "\n">>

-----------------------------------------------------------------------------
(* The wrapper of a text run *)

\* the flags in the order the composer looks at them
Priority == <<"bold", "italic", "strikethrough", "underline", "inline_code", "link">>

\* the first flag of the order that is set in a style, none when no flag is set
appliedFlag(style) ==
    IF flagsOf(style) = {} THEN "none"
    ELSE Priority[CHOOSE i \in 1..Len(Priority) :
                     /\ Priority[i] \in flagsOf(style)
                     /\ \A j \in 1..(i - 1) : Priority[j] \notin flagsOf(style)]

\* the Markdown delimiters of a flag
markdownOpening(flag) ==
    CASE flag = "bold" -> <<"*", "*">>
      [] flag = "italic" -> <<"*">>
      [] flag = "strikethrough" -> <<"~", "~">>
      [] flag = "underline" -> <<"<", "u", ">">>
      [] flag = "inline_code" -> <<"backtick">>
      [] flag = "link" -> <<"[">>
      [] OTHER -> <<>>

markdownClosing(flag, style) ==
    CASE flag = "bold" -> <<"*", "*">>
      [] flag = "italic" -> <<"*">>
      [] flag = "strikethrough" -> <<"~", "~">>
      [] flag = "underline" -> <<"<", "/", "u", ">">>
      [] flag = "inline_code" -> <<"backtick">>
      [] flag = "link" -> <<"]", "(">> \o style.link \o <<")">>
      [] OTHER -> <<>>

\* the HTML tags of bold, italic and strikethrough
tagLetter(flag) ==
    CASE flag = "bold" -> "b" [] flag = "italic" -> "i" [] OTHER -> "s"

tagOpening(flag) == <<"<", tagLetter(flag), ">">>

tagClosing(flag) == <<"<", "/", tagLetter(flag), ">">>

\* a text with its angle brackets replaced by the entities
withEntities(text) ==
    [k \in 1..Len(text) |->
        CASE text[k] = "<" -> "&lt;" [] text[k] = ">" -> "&gt;" [] OTHER -> text[k]]

\* the text of a run of block 2 as the output holds it
writtenTextOf(run) ==
    IF typeOf(2) # "Code" /\ appliedFlag(run.style) # "inline_code"
    THEN withEntities(run.content)
    ELSE run.content

finalColon(text) == text # <<>> /\ text[Len(text)] \in {":", "fullwidth-colon"}

\* whether a run is written with tags: its text ends in a colon and its applied
\* style is bold, italic or strikethrough
tagged(run) ==
    /\ finalColon(writtenTextOf(run))
    /\ appliedFlag(run.style) \in {"bold", "italic", "strikethrough"}

\* a run between the delimiters of its applied flag, in the form given
segmentIn(run, form) ==
    IF form = "tags"
    THEN tagOpening(appliedFlag(run.style)) \o writtenTextOf(run)
         \o tagClosing(appliedFlag(run.style))
    ELSE markdownOpening(appliedFlag(run.style)) \o writtenTextOf(run)
         \o markdownClosing(appliedFlag(run.style), run.style)

formOf(run) == IF tagged(run) THEN "tags" ELSE "markdown"

openingOf(run) ==
    IF tagged(run) THEN tagOpening(appliedFlag(run.style))
    ELSE markdownOpening(appliedFlag(run.style))

\* the runs one after the other, run k in the form forms[k]
RECURSIVE segmentsIn(_, _)
segmentsIn(runs, forms) ==
    IF runs = <<>> THEN <<>>
    ELSE segmentIn(Head(runs), Head(forms)) \o segmentsIn(Tail(runs), Tail(forms))

formsOf(runs) == [k \in 1..Len(runs) |-> formOf(runs[k])]

\* the merge of adjacent runs (C5) leaves the runs alone: no run after the first
\* finds its opening delimiter at the end of what was written before it
mergeFree(runs) ==
    \A k \in 2..Len(runs) :
        \/ openingOf(runs[k]) = <<>>
        \/ ~endsWith(segmentsIn(SubSeq(runs, 1, k - 1), formsOf(SubSeq(runs, 1, k - 1))),
                     openingOf(runs[k]))

\* what the runs of block 2 became in the output: the paragraph, or the lines
\* between the fences of the code block
runsText ==
    IF typeOf(2) = "Code" THEN SubSeq(bodyText, 3, Len(bodyText) - 2) ELSE bodyText

\* C13: each text run is written between the delimiters of exactly one flag, the
\* first one set in the order bold, italic, strikethrough, underline, inline
\* code, link (as Markdown delimiters or as tags), and bare when no flag is set;
\* nothing else is written, so no delimiter of a later flag appears.
WrapperIsOfFirstFlag ==
    pc # "render" /\ mergeFree(theParagraph.elements) =>
        \E forms \in [1..Len(theParagraph.elements) -> {"markdown", "tags"}] :
            runsText = segmentsIn(theParagraph.elements, forms)

\* a run that is italic and underlined was written as italic, followed by one
\* that is bold and italic written as bold
TwoFlaggedRunsWritten ==
    /\ pc # "render"
    /\ typeOf(2) = "Text"
    /\ Len(theParagraph.elements) = 2
    /\ flagsOf(theParagraph.elements[1].style) = {"italic", "underline"}
    /\ flagsOf(theParagraph.elements[2].style) = {"bold", "italic"}
    /\ runsText = <<"*", "&lt;", "a", "&gt;", "*", "*", "*", "b", "*", "*">>

\* C15: a run whose text ends in an ASCII or full-width colon and whose applied
\* style is bold, italic or strikethrough is written between <b>, <i> or <s> tags;
\* every other run keeps the Markdown delimiters of its applied style.
ColonRunsUseTags ==
    pc # "render" /\ mergeFree(theParagraph.elements) =>
        runsText = segmentsIn(theParagraph.elements, formsOf(theParagraph.elements))

\* an italic run ending in a full-width colon was written with <i> tags and an
\* underlined run ending in a colon with its usual delimiters
ItalicColonRunTagged ==
    /\ pc # "render"
    /\ runsText = <<"<", "i", ">", "a", "fullwidth-colon", "<", "/", "i", ">",
                    "<", "u", ">", "b", ":", "<", "/", "u", ">">>

-----------------------------------------------------------------------------
(* Angle brackets *)

\* the letter at position p stands between the two entities, or between the two
\* angle brackets themselves
betweenEntities(p) ==
    /\ 1 < p /\ p < Len(markdown)
    /\ markdown[p - 1] = "&lt;" /\ markdown[p + 1] = "&gt;"

betweenBrackets(p) ==
    /\ 1 < p /\ p < Len(markdown)
    /\ markdown[p - 1] = "<" /\ markdown[p + 1] = ">"

\* the run of a block
runOf(b) == b.elements[1]

\* C14, as stated: the angle brackets of a run are replaced by entities if and only
\* if the block of the run is no code block and the inline_code flag of the run
\* is not set, wherever the block stands in the document.
EscapedUnlessCodeFlagSet ==
    pc # "render" =>
        \A k \in 2..Len(blocks) : \A p \in positionsOf(blocks[k].block_id) :
            /\ betweenEntities(p) \/ betweenBrackets(p)
            /\ betweenEntities(p) <=>
                  /\ blocks[k].block_type # "Code"
                  /\ ~runOf(blocks[k]).style.inline_code

\* C14, amended: the angle brackets of a run are replaced by entities if and only
\* if the block of the run is no code block and the applied style of the run, the
\* first flag set in the priority order, is not inline code, wherever the block
\* stands in the document.
EscapedUnlessCodeApplied ==
    pc # "render" =>
        \A k \in 2..Len(blocks) : \A p \in positionsOf(blocks[k].block_id) :
            /\ betweenEntities(p) \/ betweenBrackets(p)
            /\ betweenEntities(p) <=>
                  /\ blocks[k].block_type # "Code"
                  /\ appliedFlag(runOf(blocks[k]).style) # "inline_code"

\* a paragraph with an inline-code run written verbatim follows a code block
\* written verbatim, and a later paragraph has its brackets replaced
BracketsAfterCodeBlockWritten ==
    /\ pc # "render"
    /\ \E c \in 2..Len(blocks), t \in 2..Len(blocks), u \in 2..Len(blocks) :
          /\ blocks[c].block_type = "Code"
          /\ blocks[t].block_type = "Text"
          /\ blocks[u].block_type = "Text"
          /\ flagsOf(runOf(blocks[t]).style) = {"inline_code"}
          /\ flagsOf(runOf(blocks[u]).style) = {}
          /\ \E pc1 \in positionsOf(blocks[c].block_id),
                pt \in positionsOf(blocks[t].block_id),
                pu \in positionsOf(blocks[u].block_id) :
                /\ pc1 < pt /\ pt < pu
                /\ betweenBrackets(pc1) /\ betweenBrackets(pt) /\ betweenEntities(pu)

-----------------------------------------------------------------------------
(* Quote containers *)

\* the number of quote containers a block is nested in
RECURSIVE quoteDepth(_)
quoteDepth(id) ==
    IF id = 1 \/ ~present(id) THEN 0
    ELSE (IF typeOf(blockOf(id).parent_id) = "QuoteContainer" THEN 1 ELSE 0)
         + quoteDepth(blockOf(id).parent_id)

\* k times the prefix of a quoted line
RECURSIVE quotePrefixes(_)
quotePrefixes(k) == IF k <= 0 THEN <<>> ELSE <<">", " ">> \o quotePrefixes(k - 1)

\* C16: the text of every paragraph rendered as a child of a quote container is
\* directly preceded by one prefix for each quote container the paragraph is
\* nested in.
QuotePrefixesAccumulate ==
    pc # "render" =>
        \A k \in 2..Len(blocks) :
            blocks[k].block_type = "Text" /\ typeOf(blocks[k].parent_id) = "QuoteContainer" =>
                \A p \in positionsOf(blocks[k].block_id) :
                    LET d == quoteDepth(blocks[k].block_id)
                    IN  /\ p - 2 * d >= 1
                        /\ SubSeq(markdown, p - 2 * d, p - 1) = quotePrefixes(d)

-----------------------------------------------------------------------------
(* Blocks of a type the dispatcher has no case for *)

\* C17: the fragment parseBlock returns for a block of an unrecognized type has no
\* character at all, at whatever indent the block is rendered, and the render
\* does not abort.
UnrecognizedBlockWritesNothing ==
    pc # "render" =>
        /\ ~renderer.threw
        /\ \A e \in 1..Len(renderer.log) :
              renderer.log[e].op = "fragment" /\ typeOf(renderer.log[e].id) = "Sheet" =>
                  renderer.log[e].n = 0
\* the rendered text holds this piece
textHas(piece) == \E i \in 1..Len(markdown) : markdown[i] = piece

\* the rendered text holds this piece followed by that one
textHasPair(piece, next) ==
    \E i \in 1..(Len(markdown) - 1) : markdown[i] = piece /\ markdown[i + 1] = next

theCallout == blocks[2]

calloutRendered ==
    /\ ~renderer.threw
    /\ textHasPair("<div class=\"", "callout")
    /\ textHas("</div>")

\* C18, as stated: a color id outside its table leaves no declaration of that
\* feature in the style attribute, for the background, the border and the text
\* color alike, and the callout is still rendered.
UnknownColorOmitted ==
    pc # "render" =>
        /\ calloutRendered
        /\ theCallout.background_color \notin DOMAIN CalloutBackgroundColorMap =>
               ~textHas("background: ")
        /\ theCallout.border_color \notin DOMAIN CalloutBorderColorMap =>
               ~textHas("border: 1px solid ")
        /\ theCallout.text_color \notin DOMAIN FontColorMap => ~textHas("color: ")

\* C18, amended: a background or border color id outside its table leaves no
\* declaration of that feature; a text color id that is given but outside the
\* font color table is declared as color: #222, and an absent text color id
\* leaves no declaration; the callout is rendered in every case.
UnknownColorOmittedOrDefaulted ==
    pc # "render" =>
        /\ calloutRendered
        /\ theCallout.background_color \notin DOMAIN CalloutBackgroundColorMap =>
               ~textHas("background: ")
        /\ theCallout.border_color \notin DOMAIN CalloutBorderColorMap =>
               ~textHas("border: 1px solid ")
        /\ theCallout.text_color \notin DOMAIN FontColorMap \cup {0} =>
               textHasPair("color: ", "#222")
        /\ theCallout.text_color = 0 => ~textHas("color: ")

UnknownColorsCalloutWritten ==
    /\ pc = "done"
    /\ theCallout.background_color = 15
    /\ theCallout.border_color = 8
    /\ theCallout.text_color = 9
    /\ Len(theCallout.children) = 1
    /\ textHas("color: ")
    /\ textHas(" style=\"")

\* block id lies in the subtree of block anc
RECURSIVE under(_, _)
under(id, anc) ==
    /\ present(id)
    /\ (id = anc \/ under(blockOf(id).parent_id, anc))

\* the last position of the output that holds text of the subtree of block id
lastOf(id) ==
    CHOOSE p \in 1..Len(markdown) :
        /\ \E d \in 1..(MaxNested + 1) : under(d, id) /\ p \in positionsOf(d)
        /\ \A d \in 1..(MaxNested + 1) :
              under(d, id) => \A q \in positionsOf(d) : q <= p

ListTypes == {"Bullet", "Ordered"}

\* the list items with children that have a next sibling holding text, each
\* with that sibling
itemsBeforeSibling ==
    {pair \in (1..(MaxNested + 1)) \X (1..(MaxNested + 1)) :
        /\ typeOf(pair[1]) \in ListTypes
        /\ blockOf(pair[1]).children # <<>>
        /\ typeOf(pair[2]) \in ListTypes \cup {"Text"}
        /\ \E i \in 1..(Len(blockOf(blockOf(pair[1]).parent_id).children) - 1) :
              /\ blockOf(blockOf(pair[1]).parent_id).children[i] = pair[1]
              /\ blockOf(blockOf(pair[1]).parent_id).children[i + 1] = pair[2]}

blankLineAfter(pair) ==
    \A q \in positionsOf(pair[2]) : blankLineBetween(lastOf(pair[1]), q)

listSubtree(id) ==
    \A d \in 1..(MaxNested + 1) : under(d, id) => typeOf(d) \in ListTypes \cup {"Text"}

freshRender == parse(blocks, NoRenderer)

\* C20: nothing persists across renders: a renderer that has rendered a list
\* before returns for the next list the text a fresh renderer returns, and
\* offers the same token list and the same title afterwards.
NothingPersistsAcrossRenders ==
    pc # "render" /\ ~freshRender.st.threw =>
        /\ ~renderer.threw
        /\ rendered = freshRender.text
        /\ renderer.fileTokens = freshRender.st.fileTokens
        /\ renderer.title = freshRender.st.title

-----------------------------------------------------------------------------
(* The lookahead sibling *)

\* block next immediately follows block id in the child sequence of id's parent
followsInParent(id, next) ==
    \E i \in 1..(Len(blockOf(blockOf(id).parent_id).children) - 1) :
        /\ blockOf(blockOf(id).parent_id).children[i] = id
        /\ blockOf(blockOf(id).parent_id).children[i + 1] = next

\* C21: whenever the compaction condition of a list item is evaluated, the
\* lookahead sibling reference is empty or the block that immediately follows
\* the item in the child sequence of its own parent.
LookaheadIsOwnNextSibling ==
    pc # "render" =>
        \A e \in 1..Len(renderer.log) :
            renderer.log[e].op = "compact" =>
                \/ renderer.log[e].n = 0
                \/ followsInParent(renderer.log[e].id, renderer.log[e].n)

-----------------------------------------------------------------------------
(* Headings *)

\* only spaces lie between the start of the line and position q of the output
onlyIndentBefore(q) ==
    \E s \in 0..(q - 1) :
        /\ (s = 0 \/ markdown[s] = "\n")
        /\ \A j \in (s + 1)..(q - 1) : markdown[j] = " "

\* the text of heading block b follows level hashes and one space on its line
headingLine(b, p) ==
    /\ p > headingLevel(b.block_type) + 1
    /\ markdown[p - 1] = " "
    /\ \A j \in (p - 1 - headingLevel(b.block_type))..(p - 2) : markdown[j] = "#"
    /\ onlyIndentBefore(p - 1 - headingLevel(b.block_type))

\* C22: the output line of a heading block of level 1 to 9 is optional
\* indentation, exactly level hash characters and one space, then the inline
\* content.
HeadingLineHasLevelHashes ==
    pc # "render" /\ ~renderer.threw =>
        \A k \in 1..Len(blocks) :
            blocks[k].block_type \in HeadingTypes =>
                /\ eventsOf("render", blocks[k].block_id) # {} =>
                       positionsOf(blocks[k].block_id) # {}
                /\ \A p \in positionsOf(blocks[k].block_id) : headingLine(blocks[k], p)

IndentedHeadingNineWritten ==
    /\ pc = "done"
    /\ \E k \in 1..Len(blocks) :
          /\ blocks[k].block_type = "Heading9"
          /\ typeOf(blocks[k].parent_id) = "Bullet"
          /\ positionsOf(blocks[k].block_id) # {}

-----------------------------------------------------------------------------
(* Fetching the blocks *)

\* a response that makes getAllDocumentBlocks throw
failed(resp) == ~resp.ok \/ resp.code # 0

\* a response after which another page is requested
continuing(resp) == ~failed(resp) /\ resp.has_more /\ resp.page_token # <<>>

\* the items of the first n responses, in request order
RECURSIVE itemsUpTo(_)
itemsUpTo(n) == IF n = 0 THEN <<>> ELSE itemsUpTo(n - 1) \o fetch.responses[n].items

lastResponse == fetch.responses[Len(fetch.responses)]

\* C23: each request after the first carries the page token of the response
\* before it; a request is sent only after a response that has more and names
\* a token; the call returns after the first response without has_more or
\* without a token, with the items of all pages in request order; a failed
\* request ends the run and hands no list to the renderer.
PagesFetchedInOrder ==
    /\ Len(fetch.requests) = Len(fetch.responses)
    /\ \A i \in 1..Len(fetch.requests) :
          /\ fetch.requests[i] = IF i = 1 THEN <<>> ELSE fetch.responses[i - 1].page_token
          /\ i < Len(fetch.requests) => continuing(fetch.responses[i])
    /\ pc = "fetch" /\ fetch.responses # <<>> => continuing(lastResponse) /\ blocks = <<>>
    /\ pc = "render" =>
          /\ fetch.responses # <<>>
          /\ ~failed(lastResponse)
          /\ ~continuing(lastResponse)
          /\ blocks = itemsUpTo(Len(fetch.responses))
    /\ pc = "aborted" => fetch.responses # <<>> /\ failed(lastResponse) /\ blocks = <<>>

ThreePagesFetched ==
    /\ pc = "render"
    /\ Len(fetch.responses) = 3
    /\ lastResponse.has_more
    /\ Len(blocks) = 4
    /\ blocks[1].block_id = 3

SecondRequestFailed ==
    /\ pc = "aborted"
    /\ Len(fetch.responses) = 2
    /\ fetch.allBlocks # <<>>

-----------------------------------------------------------------------------
(* Downloading the media *)

\* the tokens a map holds
tokensIn(entries) == {entries[i].token : i \in 1..Len(entries)}

\* the path a map holds for a token
pathIn(entries, token) ==
    entries[CHOOSE i \in 1..Len(entries) : entries[i].token = token].path

\* the number of places of a text that hold a token
occurrences(text, token) == Cardinality({p \in 1..Len(text) : text[p] = token})

\* no place of the written file holds a local path for the token
noPathWritten(token) ==
    \A p \in 3..Len(outFile.content) :
        outFile.content[p] = token[1] =>
            ~(outFile.content[p - 1] = "/" /\ outFile.content[p - 2] \in {"images", "files"})

\* one attempt: the next entry is counted whatever the outcome, the loop goes
\* on while entries are left, and the map is left alone or gains the entry of
\* the attempted token only
attemptStep ==
    pc = "download" /\ pc' # "aborted" =>
        /\ dl' = dl + 1
        /\ pc' = IF dl + 1 < Len(renderer.fileTokens) THEN "download" ELSE "replace"
        /\ \/ tokenToPath' = tokenToPath
           \/ /\ tokensIn(tokenToPath') =
                     tokensIn(tokenToPath) \cup {renderer.fileTokens[dl + 1].token}
              /\ \A t \in tokensIn(tokenToPath) \ {renderer.fileTokens[dl + 1].token} :
                    pathIn(tokenToPath', t) = pathIn(tokenToPath, t)

attemptsSoFar ==
    /\ dl <= Len(renderer.fileTokens)
    /\ tokensIn(tokenToPath) \subseteq {renderer.fileTokens[i].token : i \in 1..dl}
    /\ pc = "download" => dl < Len(renderer.fileTokens)
    /\ pc = "replace" => dl = Len(renderer.fileTokens)
    /\ pc = "done" /\ downloadImages => dl = Len(renderer.fileTokens)
    /\ pc = "done" =>
          \A i \in 1..Len(renderer.fileTokens) :
              renderer.fileTokens[i].token \notin tokensIn(tokenToPath) =>
                  /\ occurrences(outFile.content, renderer.fileTokens[i].token[1])
                        = occurrences(rendered, renderer.fileTokens[i].token[1])
                  /\ noPathWritten(renderer.fileTokens[i].token)

-----------------------------------------------------------------------------
(* Indent depth *)

\* the indent depths at which the dispatcher was entered for block id
depthsOf(id) == {renderer.log[e].n : e \in eventsOf("render", id)}

\* C25: all children of one paragraph or heading block are rendered at the
\* indent depth at which the block itself was rendered, whatever their types
\* and however deep the subtrees of earlier children are.
TextChildrenKeepParentDepth ==
    pc # "render" =>
        \A k \in 1..Len(blocks) :
            typeOf(blocks[k].parent_id) \in childrenBlockTypes =>
                depthsOf(blocks[k].block_id) \subseteq depthsOf(blocks[k].parent_id)

-----------------------------------------------------------------------------
(* Composing adjacent runs *)

closingOf(run) ==
    IF tagged(run) THEN tagClosing(appliedFlag(run.style))
    ELSE markdownClosing(appliedFlag(run.style), run.style)

\* the delimiters a run is written between
wrapperOf(run) == <<openingOf(run), closingOf(run)>>

\* C26: composing a run removes characters already written only when the run
\* before it has the same applied wrapper: in a paragraph of two runs whose
\* wrappers differ, the output holds the first run whole, text and closing
\* delimiter, followed by the second run whole.
DifferentWrappersLoseNothing ==
    /\ pc # "render"
    /\ Len(theParagraph.elements) = 2
    /\ wrapperOf(theParagraph.elements[1]) # wrapperOf(theParagraph.elements[2])
    => runsText = segmentsIn(theParagraph.elements, formsOf(theParagraph.elements))

-----------------------------------------------------------------------------
(* Cells of an HTML table *)

\* cell k lies in the rectangle of some merge of the table
covered(t, k) == \E o \in 1..Len(t.merge_info) : o <= Len(t.cells) /\ coveredBy(t, o, k)

\* the cells of the table that are in the lookup and outside every merge
openCells(t) == {k \in 1..Len(t.cells) : present(t.cells[k]) /\ ~covered(t, k)}

\* C27: in an HTML table every cell that is in the lookup and not covered by a
\* merge is written exactly once, the cells in row-major order, also when the
\* merge list is empty and when cells are missing from the lookup.
OpenCellsWrittenOnce ==
    tableRendered /\ htmlOut /\ ~renderer.threw /\ noPipeInText =>
        /\ \A k \in openCells(theTable) : Cardinality(cellPositions(theTable, k)) = 1
        /\ \A k \in openCells(theTable), l \in openCells(theTable) :
              k < l => \A p \in cellPositions(theTable, k), q \in cellPositions(theTable, l) :
                          p < q

\* C28: for an origin whose row span and column span are both above 1, every
\* other cell of the rectangle anchored at the origin is left out of the HTML
\* table, the cells off the origin's row and column included, and every cell
\* outside the rectangle is written.
RectangleLeftOut ==
    tableRendered /\ htmlOut /\ allCellsPresent(theTable) /\ noPipeInText
        /\ Len(theTable.merge_info) = Len(theTable.cells) =>
        \A o \in 1..Len(theTable.cells) :
            theTable.merge_info[o].row_span > 1 /\ theTable.merge_info[o].col_span > 1 =>
                \A k \in 1..Len(theTable.cells) :
                    IF coveredBy(theTable, o, k)
                    THEN cellPositions(theTable, k) = {}
                    ELSE Cardinality(cellPositions(theTable, k)) = 1

-----------------------------------------------------------------------------
(* The walk *)

\* C29: on a list with one Page root in which every other block is listed by
\* at most one block and no block is its own ancestor, parse ends, the
\* dispatcher is entered once for the root, at most once for each other block
\* and never for a block that is not in the list, and unless parse threw every
\* entry of the dispatcher has returned.
EachBlockRenderedAtMostOnce ==
    pc # "render" =>
        /\ \A e \in 1..Len(renderer.log) :
              renderer.log[e].op = "render" =>
                  /\ present(renderer.log[e].id)
                  /\ Cardinality(eventsOf("render", renderer.log[e].id)) = 1
                  /\ ~renderer.threw =>
                         Cardinality(eventsOf("fragment", renderer.log[e].id)) = 1
        /\ Cardinality(eventsOf("render", 1)) = 1

NestedBlocksEachRenderedOnce ==
    /\ pc = "done"
    /\ Len(blocks) = 4
    /\ typeOf(3) = "Bullet"
    /\ blockOf(4).parent_id = 3
    /\ blockOf(3).parent_id = 2
    /\ \A id \in 1..4 : Cardinality(eventsOf("render", id)) = 1

====
